---- MODULE Spec2Model ----
(***************************************************************************)
(* PerfKitBenchmarker: the BenchmarkSpec orchestration                     *)
(* (perfkitbenchmarker/benchmark_spec.py), the GCE scratch-disk numbering  *)
(* (providers/gcp/gce_virtual_machine.py) and the disk specs (disk.py).    *)
(*                                                                         *)
(* Python objects are records, dicts are functions whose DOMAIN is the set *)
(* of keys present, lists are sequences.  A call that may raise is an      *)
(* operator returning a record with an `exc' field: "" when the call       *)
(* returned normally, else the name of the exception that left it.         *)
(***************************************************************************)
EXTENDS Integers, Sequences, FiniteSets, TLC

VARIABLES
  FLAGS,     \* process-wide flags: name -> [present, value]
  specs,     \* the BenchmarkSpec objects of the process, in creation order
  file,      \* the pickled spec file: <<>> when absent, else <<image>>
  calls,     \* per spec object: how often each resource operation was invoked
  machines,  \* GceVirtualMachine objects: name -> allocation state
  vm_pool,   \* StaticVirtualMachine.vm_pool: static VMs not yet handed out
  last       \* the last call made: its arguments, what it invoked, its outcome

vars == <<FLAGS, specs, file, calls, machines, vm_pool, last>>

-----------------------------------------------------------------------------
(* Config constants, benchmark_spec.py:51-74 *)
VM_GROUPS == "vm_groups"
CONFIG_FLAGS == "flags"
DISK_COUNT == "disk_count"
VM_COUNT == "vm_count"
DEFAULT_COUNT == 1
CLOUD == "cloud"
OS_TYPE == "os_type"
STATIC_VMS == "static_vms"
VM_SPEC == "vm_spec"
DISK_SPEC == "disk_spec"

GCP == "GCP"
AZURE == "Azure"
AWS == "AWS"
DEBIAN == "debian"
RHEL == "rhel"
WINDOWS == "windows"

RUN_STAGE == "run_stage"

\* The enum values of the cloud and os_type flags that the model enumerates
\* (benchmark_spec.py:78-88 lists nine clouds and four OS types; three of
\* each are enough to tell flag, config and default apart).
Clouds == {GCP, AZURE, AWS}
OsTypes == {DEBIAN, RHEL, WINDOWS}

\* flags.DEFINE_enum('cloud', GCP, ...), flags.DEFINE_enum('os_type', DEBIAN, ...)
FlagDefault == (CLOUD :> GCP) @@ (OS_TYPE :> DEBIAN)

\* The values of the run_stage flag: Delete names 'all' and 'cleanup'; the
\* others stand for every stage that does not permit teardown.
RunStages == {"all", "provision", "run", "cleanup"}

\* A flag as the flags library holds it: a flag that was not supplied has its
\* default value and present = FALSE.
FlagStates(name, values) ==
  {[present |-> FALSE, value |-> FlagDefault[name]]}
    \cup {[present |-> TRUE, value |-> v] : v \in values}

-----------------------------------------------------------------------------
(* BenchmarkSpec.__init__ *)
BenchmarkSpec(benchmark_config, benchmark_name, benchmark_uid) ==
  [config |-> benchmark_config,
   name |-> benchmark_name,
   uid |-> benchmark_uid,
   vms |-> <<>>,
   networks |-> <<>>,
   firewalls |-> <<>>,
   vm_groups |-> <<>>,
   deleted |-> FALSE,
   _flags |-> <<>>]

-----------------------------------------------------------------------------
(* Cloud and OS type of a VM group *)

GetCloudForGroup_ConfigFirst(self, group_name) ==
  LET group_spec == self.config[VM_GROUPS][group_name]
  IN  IF CLOUD \in DOMAIN group_spec
      THEN group_spec[CLOUD]
      ELSE FLAGS[CLOUD].value

GetOsTypeForGroup_CloudKey(self, group_name) ==
  LET group_spec == self.config[VM_GROUPS][group_name]
  IN  IF ~FLAGS[CLOUD].present /\ CLOUD \in DOMAIN group_spec /\ OS_TYPE \in DOMAIN group_spec
      THEN group_spec[OS_TYPE]
      ELSE FLAGS[OS_TYPE].value

_GetCloudForGroup(self, group_name) ==
  LET group_spec == self.config[VM_GROUPS][group_name]
  IN  IF ~FLAGS[CLOUD].present /\ CLOUD \in DOMAIN group_spec
      THEN group_spec[CLOUD]
      ELSE FLAGS[CLOUD].value

_GetOsTypeForGroup(self, group_name) ==
  LET group_spec == self.config[VM_GROUPS][group_name]
  IN  IF ~FLAGS[OS_TYPE].present /\ OS_TYPE \in DOMAIN group_spec
      THEN group_spec[OS_TYPE]
      ELSE FLAGS[OS_TYPE].value

\* The group names of the configurations the model enumerates.
GroupNames == {"default", "workers"}

\* The cloud / os_type part of a group's configuration: each key is present
\* with one of the enum values, or absent.
Optional(key, values) == {<<>>} \cup {key :> v : v \in values}

ResolveGroupSpecs ==
  {c @@ o : c \in Optional(CLOUD, Clouds), o \in Optional(OS_TYPE, OsTypes)}

InitResolve ==
  /\ \E cloud \in FlagStates(CLOUD, Clouds), os \in FlagStates(OS_TYPE, OsTypes),
        groups \in [GroupNames -> ResolveGroupSpecs] :
       /\ FLAGS = (CLOUD :> cloud) @@ (OS_TYPE :> os)
                    @@ (RUN_STAGE :> [present |-> FALSE, value |-> "all"])
       /\ specs = <<BenchmarkSpec(VM_GROUPS :> groups, "bench", "uid")>>
  /\ file = <<>>
  /\ calls = <<>>
  /\ machines = <<>>
  /\ vm_pool = <<>>
  /\ last = [op |-> "__init__"]

\* The two resolutions ConstructVirtualMachines makes for a group
\* (benchmark_spec.py:182-183), applied to one group of the configuration.
ResolveGroup(group_name) ==
  /\ last' = [op |-> "ResolveGroup", group |-> group_name,
              os_type |-> _GetOsTypeForGroup(specs[1], group_name),
              cloud |-> _GetCloudForGroup(specs[1], group_name)]
  /\ UNCHANGED <<FLAGS, specs, file, calls, machines, vm_pool>>

NextResolve == \E g \in GroupNames : ResolveGroup(g)

SpecResolve == InitResolve /\ [][NextResolve]_vars

\* The group configuration the last resolution looked at.
ResolvedGroupSpec == specs[1].config[VM_GROUPS][last.group]

\* C1: when the cloud flag (resp. the os_type flag) was explicitly supplied,
\* the cloud (resp. OS type) resolved for a group is the flag's value, whether
\* or not the group configures its own value and whatever that value is.
C1_FlagBeatsGroupConfig ==
  last.op = "ResolveGroup" =>
    /\ FLAGS[CLOUD].present => last.cloud = FLAGS[CLOUD].value
    /\ FLAGS[OS_TYPE].present => last.os_type = FLAGS[OS_TYPE].value

\* Both flags supplied, the group configures both keys, each with a value
\* other than the flag's.
C1_Witness ==
  /\ last.op = "ResolveGroup"
  /\ FLAGS[CLOUD].present /\ FLAGS[OS_TYPE].present
  /\ {CLOUD, OS_TYPE} \subseteq DOMAIN ResolvedGroupSpec
  /\ ResolvedGroupSpec[CLOUD] # FLAGS[CLOUD].value
  /\ ResolvedGroupSpec[OS_TYPE] # FLAGS[OS_TYPE].value
  /\ last.cloud = FLAGS[CLOUD].value

\* C2: when the cloud flag (resp. the os_type flag) was not supplied, the
\* resolved cloud (resp. OS type) is the group's configured value if the group
\* has that key and the flag's default otherwise; each of the two is decided
\* by its own flag and its own key only.
C2_GroupConfigElseDefault ==
  last.op = "ResolveGroup" =>
    /\ ~FLAGS[CLOUD].present =>
          last.cloud = IF CLOUD \in DOMAIN ResolvedGroupSpec
                       THEN ResolvedGroupSpec[CLOUD] ELSE GCP
    /\ ~FLAGS[OS_TYPE].present =>
          last.os_type = IF OS_TYPE \in DOMAIN ResolvedGroupSpec
                         THEN ResolvedGroupSpec[OS_TYPE] ELSE DEBIAN

\* The cloud flag supplied and the os_type flag not, the group configuring an
\* OS type but no cloud: the OS type comes from the group, the cloud from the
\* flag, and the other group is configured differently.
C2_Witness ==
  /\ last.op = "ResolveGroup"
  /\ FLAGS[CLOUD].present /\ ~FLAGS[OS_TYPE].present
  /\ DOMAIN ResolvedGroupSpec = {OS_TYPE}
  /\ ResolvedGroupSpec[OS_TYPE] # DEBIAN
  /\ last.os_type = ResolvedGroupSpec[OS_TYPE]
  /\ \E g \in GroupNames : specs[1].config[VM_GROUPS][g] # ResolvedGroupSpec

-----------------------------------------------------------------------------
(* Outcomes of calls *)

\* The messages Delete passes to logging.exception (benchmark_spec.py:236-250).
LOG_VMS == "Got an exception deleting VMs."
LOG_FIREWALLS == "Got an exception disabling firewalls."
LOG_NETWORKS == "Got an exception deleting networks."
LogMessages == {LOG_VMS, LOG_FIREWALLS, LOG_NETWORKS}

NothingLogged == [m \in LogMessages |-> 0]

\* The outcome of a piece of code: the resource operations it invoked, in
\* order, how often it logged each message, and the exception that left it
\* ("" when it ran to its end).
Ran(events) == [events |-> events, logged |-> NothingLogged, exc |-> ""]

\* Statement a followed by statement b: b runs only when a raised nothing.
Then(a, b) ==
  IF a.exc # "" THEN a
  ELSE [events |-> a.events \o b.events,
        logged |-> [m \in LogMessages |-> a.logged[m] + b.logged[m]],
        exc |-> b.exc]

\* try: body / except Exception: logging.exception(message)
TryExceptLog(body, message) ==
  IF body.exc # ""
  THEN [events |-> body.events,
        logged |-> [body.logged EXCEPT ![message] = @ + 1],
        exc |-> ""]
  ELSE body

\* A call of a resource's method, which raises when the resource fails.
Invoke(call, on, raises) ==
  [events |-> <<[call |-> call, on |-> on]>>,
   logged |-> NothingLogged,
   exc |-> IF raises THEN "Exception" ELSE ""]

\* How often `call' was invoked on resource `on' in a sequence of events.
RECURSIVE Count(_, _, _)
Count(events, call, on) ==
  IF events = <<>> THEN 0
  ELSE (IF Head(events) = [call |-> call, on |-> on] THEN 1 ELSE 0)
         + Count(Tail(events), call, on)

-----------------------------------------------------------------------------
(* Teardown *)

DeleteVmSteps_UnlessUnmanagedStatic(vm) ==
  (IF vm.is_static /\ ~vm.install_packages THEN <<>> ELSE <<"PackageCleanup">>)
    \o <<"Delete", "DeleteScratchDisks">>

\* The methods DeleteVm calls on a VM, in order.
DeleteVmSteps(vm) ==
  (IF vm.is_static /\ vm.install_packages THEN <<"PackageCleanup">> ELSE <<>>)
    \o <<"Delete", "DeleteScratchDisks">>

\* The calls in `steps' made on a VM in order, of which `fail' raises.
RECURSIVE RunSteps(_, _, _)
RunSteps(vm, steps, fail) ==
  IF steps = <<>> THEN Ran(<<>>)
  ELSE Then(Invoke(Head(steps), vm.name, Head(steps) = fail),
            RunSteps(vm, Tail(steps), fail))

\* DeleteVm on one VM, whose method `fail' raises ("" when none does).
DeleteVm(vm, fail) == RunSteps(vm, DeleteVmSteps(vm), fail)

\* vm_util.RunThreaded(func, items): func is started for every item on its
\* own thread; when one or more of them raised, one exception is raised
\* after all of them have finished, which holds the exceptions of the
\* items in `failed'.  `outcome[i]' is what func did on item i.
RunThreaded(func, items, outcome) ==
  [events |-> [i \in DOMAIN items |-> [call |-> func, on |-> items[i].name]],
   logged |-> NothingLogged,
   exc |-> IF \E i \in DOMAIN items : outcome[i].exc # ""
           THEN "ThreadException" ELSE "",
   failed |-> {i \in DOMAIN items : outcome[i].exc # ""}]

FailPoints == {"", "PackageCleanup", "Delete", "DeleteScratchDisks"}

VmStage_NoExcept(self, fail) ==
  IF self.vms # <<>>
  THEN RunThreaded("DeleteVm", self.vms,
                   [i \in DOMAIN self.vms |-> DeleteVm(self.vms[i], fail[i])])
  ELSE Ran(<<>>)

\* if self.vms: try: RunThreaded(self.DeleteVm, self.vms) except Exception: log
VmStage(self, fail) ==
  IF self.vms # <<>>
  THEN TryExceptLog(
         RunThreaded("DeleteVm", self.vms,
                     [i \in DOMAIN self.vms |-> DeleteVm(self.vms[i], fail[i])]),
         LOG_VMS)
  ELSE Ran(<<>>)

FirewallStep_NoExcept(firewall, raises) ==
  Invoke("DisallowAllPorts", firewall, raises)

\* try: firewall.DisallowAllPorts() except Exception: log
FirewallStep(firewall, raises) ==
  TryExceptLog(Invoke("DisallowAllPorts", firewall, raises), LOG_FIREWALLS)

\* for firewall in self.firewalls.itervalues(): ..., from the i-th on
RECURSIVE FirewallStage(_, _, _)
FirewallStage(self, i, raising) ==
  IF i > Len(self.firewalls) THEN Ran(<<>>)
  ELSE Then(FirewallStep(self.firewalls[i], i \in raising),
            FirewallStage(self, i + 1, raising))

\* try: net.Delete() except Exception: log
NetworkStep(net, raises) ==
  TryExceptLog(Invoke("Delete", net, raises), LOG_NETWORKS)

\* for net in self.networks.itervalues(): ..., from the i-th on
RECURSIVE NetworkStage(_, _, _)
NetworkStage(self, i, raising) ==
  IF i > Len(self.networks) THEN Ran(<<>>)
  ELSE Then(NetworkStep(self.networks[i], i \in raising),
            NetworkStage(self, i + 1, raising))

\* What each stage of a teardown can do, over every way its resources fail.
VmStageOutcomes(self) ==
  {VmStage(self, fail) : fail \in [DOMAIN self.vms -> FailPoints]}
FirewallStageOutcomes(self) ==
  {FirewallStage(self, 1, raising) : raising \in SUBSET DOMAIN self.firewalls}
NetworkStageOutcomes(self) ==
  {NetworkStage(self, 1, raising) : raising \in SUBSET DOMAIN self.networks}

DeleteGuard_StageOnly(self) ==
  FLAGS[RUN_STAGE].value \notin {"all", "cleanup"}

\* if FLAGS.run_stage not in ['all', 'cleanup'] or self.deleted: return
DeleteGuard(self) ==
  FLAGS[RUN_STAGE].value \notin {"all", "cleanup"} \/ self.deleted

DeleteRun_MarksBlocked(self, a, b, c) ==
  LET ran == IF DeleteGuard(self) THEN Ran(<<>>) ELSE Then(Then(a, b), c)
  IN  [ran |-> ran,
       self |-> IF ran.exc = "" THEN [self EXCEPT !.deleted = TRUE] ELSE self]

DeleteRun_NetworksFirst(self, a, b, c) ==
  IF DeleteGuard(self)
  THEN [ran |-> Ran(<<>>), self |-> self]
  ELSE LET ran == Then(Then(c, b), a)
       IN  [ran |-> ran,
            self |-> IF ran.exc = "" THEN [self EXCEPT !.deleted = TRUE] ELSE self]

DeleteRun_ClearsWhenDeleted(self, a, b, c) ==
  IF DeleteGuard(self)
  THEN [ran |-> Ran(<<>>), self |-> [self EXCEPT !.deleted = FALSE]]
  ELSE LET ran == Then(Then(a, b), c)
       IN  [ran |-> ran,
            self |-> IF ran.exc = "" THEN [self EXCEPT !.deleted = TRUE] ELSE self]

\* Delete on spec object `self' when its stages do a, b and c: the outcome of
\* the call and the object afterwards (self.deleted = True is the last
\* statement, reached when nothing was raised before it).
DeleteRun(self, a, b, c) ==
  IF DeleteGuard(self)
  THEN [ran |-> Ran(<<>>), self |-> self]
  ELSE LET ran == Then(Then(a, b), c)
       IN  [ran |-> ran,
            self |-> IF ran.exc = "" THEN [self EXCEPT !.deleted = TRUE] ELSE self]

\* Every way a Delete call on `self' can go, over every way its resources fail.
DeleteOutcomes(self) ==
  {DeleteRun(self, a, b, c) :
     a \in VmStageOutcomes(self), b \in FirewallStageOutcomes(self),
     c \in NetworkStageOutcomes(self)}

\* No operation of a spec object invoked yet; `origin' tells how the object
\* came to be, and for a resumed one `pickled_deleted' what the file held.
NoCalls(self, origin, pickled_deleted) ==
  [DeleteVm |-> [i \in DOMAIN self.vms |-> 0],
   DisallowAllPorts |-> [i \in DOMAIN self.firewalls |-> 0],
   NetworkDelete |-> [i \in DOMAIN self.networks |-> 0],
   origin |-> origin,
   pickled_deleted |-> pickled_deleted]

\* The counters of a spec object after a call that made `events'.
Counted(self, counts, events) ==
  [counts EXCEPT
     !.DeleteVm = [i \in DOMAIN self.vms |->
       @[i] + Count(events, "DeleteVm", self.vms[i].name)],
     !.DisallowAllPorts = [i \in DOMAIN self.firewalls |->
       @[i] + Count(events, "DisallowAllPorts", self.firewalls[i])],
     !.NetworkDelete = [i \in DOMAIN self.networks |->
       @[i] + Count(events, "Delete", self.networks[i])]]

\* Bounds of the model.
MaxVms == 2
MaxFirewalls == 2
MaxNetworks == 2
MaxWork == 2

\* The most often one operation was invoked on one resource of the spec.
Busiest(counts) ==
  LET all == {counts.DeleteVm[i] : i \in DOMAIN counts.DeleteVm}
               \cup {counts.DisallowAllPorts[i] : i \in DOMAIN counts.DisallowAllPorts}
               \cup {counts.NetworkDelete[i] : i \in DOMAIN counts.NetworkDelete}
  IN  IF all = {} THEN 0 ELSE CHOOSE n \in all : \A m \in all : m <= n

Delete ==
  /\ specs # <<>>
  /\ Busiest(calls[1]) < MaxWork
  /\ \E r \in DeleteOutcomes(specs[1]) :
       /\ specs' = <<r.self>>
       /\ calls' = <<Counted(specs[1], calls[1], r.ran.events)>>
       /\ last' = [op |-> "Delete", was_deleted |-> specs[1].deleted,
                   after_failed_prepare |-> last.op = "Prepare" /\ last.exc # "",
                   events |-> r.ran.events, logged |-> r.ran.logged,
                   exc |-> r.ran.exc]
  /\ UNCHANGED <<FLAGS, file, machines, vm_pool>>

\* configs.GetMergedFlags(config): the process-wide flags, with the values
\* the configuration's own flags give to the flags that were not supplied.
GetMergedFlags(config, flags) ==
  [f \in DOMAIN flags |->
     IF CONFIG_FLAGS \in DOMAIN config /\ f \in DOMAIN config[CONFIG_FLAGS]
          /\ ~flags[f].present
       THEN [flags[f] EXCEPT !.value = config[CONFIG_FLAGS][f]]
       ELSE flags[f]]

\* The FLAGS property: the merged flags are computed on first use and kept.
ReadFLAGS ==
  /\ specs # <<>>
  /\ specs' = <<[specs[1] EXCEPT
                   !._flags = IF @ = <<>>
                                THEN <<GetMergedFlags(specs[1].config, FLAGS)>>
                                ELSE @]>>
  /\ last' = [op |-> "FLAGS", before |-> specs[1], value |-> specs'[1]._flags]
  /\ UNCHANGED <<FLAGS, file, calls, machines, vm_pool>>

PickleSpec_Attached ==
  /\ specs # <<>>
  /\ \E raised \in BOOLEAN :
       /\ file' = IF raised THEN <<>> ELSE <<specs[1]>>
       /\ specs' = specs
       /\ last' = [op |-> "PickleSpec", before |-> specs[1],
                   exc |-> IF raised THEN "PicklingError" ELSE ""]
  /\ UNCHANGED <<FLAGS, calls, machines, vm_pool>>

\* PickleSpec: the flags cache is taken off the object, the object is
\* written (pickle.dump(self, pickle_file, 2): the image holds the object's
\* fields) and the cache is put back.  The file is opened for writing, which
\* empties it; when the dump raises, the file holds no image and the
\* statement that puts the cache back is not reached.
PickleSpec ==
  /\ specs # <<>>
  /\ \E raised \in BOOLEAN :
       LET flags == specs[1]._flags
           detached == [specs[1] EXCEPT !._flags = <<>>]
       IN  /\ file' = IF raised THEN <<>> ELSE <<detached>>
           /\ specs' = IF raised THEN <<detached>>
                                 ELSE <<[detached EXCEPT !._flags = flags]>>
           /\ last' = [op |-> "PickleSpec", before |-> specs[1],
                       exc |-> IF raised THEN "PicklingError" ELSE ""]
  /\ UNCHANGED <<FLAGS, calls, machines, vm_pool>>

Unpickled_AsWritten(image) == image

\* spec = pickle.load(pickle_file); spec.deleted = False
Unpickled(image) == [image EXCEPT !.deleted = FALSE]

\* GetSpecFromFile: the caller goes on with the spec read from the file;
\* without a file the exception of open() is raised again.
GetSpecFromFile ==
  /\ IF file = <<>>
     THEN /\ last' = [op |-> "GetSpecFromFile", exc |-> "IOError"]
          /\ UNCHANGED <<specs, calls>>
     ELSE /\ specs' = <<Unpickled(file[1])>>
          /\ calls' = <<NoCalls(file[1], "resumed", file[1].deleted)>>
          /\ last' = [op |-> "GetSpecFromFile", exc |-> ""]
  /\ UNCHANGED <<FLAGS, file, machines, vm_pool>>

\* The program ends and is invoked again with another run stage: the objects
\* of the process are gone, the pickled file stays.
NewInvocation(stage) ==
  /\ file # <<>>
  /\ FLAGS' = [FLAGS EXCEPT ![RUN_STAGE] = [present |-> TRUE, value |-> stage]]
  /\ specs' = <<>>
  /\ calls' = <<>>
  /\ last' = [op |-> "NewInvocation"]
  /\ UNCHANGED <<file, machines, vm_pool>>

\* The VMs of a group: the static ones first, with or without managed
\* package installation, then the ones the run creates.
VmKind(is_static, install_packages) ==
  [is_static |-> is_static, install_packages |-> install_packages]

GroupVmKinds(n) ==
  {[i \in 1..n |-> IF i <= s THEN VmKind(TRUE, managed) ELSE VmKind(FALSE, TRUE)] :
     s \in 0..n, managed \in BOOLEAN}

Named(prefix, n) == [i \in 1..n |-> <<prefix, i>>]

\* A spec whose VMs, firewalls and networks have been provisioned.
Provisioned(kinds, nfirewalls, nnetworks) ==
  [BenchmarkSpec(VM_GROUPS :> <<>>, "bench", "uid") EXCEPT
     !.vms = [i \in DOMAIN kinds |->
                [name |-> <<"vm", i>>, is_static |-> kinds[i].is_static,
                 install_packages |-> kinds[i].install_packages]],
     !.firewalls = Named("firewall", nfirewalls),
     !.networks = Named("network", nnetworks)]

Init ==
  /\ \E stage \in RunStages :
       FLAGS = (CLOUD :> [present |-> FALSE, value |-> FlagDefault[CLOUD]])
                 @@ (OS_TYPE :> [present |-> FALSE, value |-> FlagDefault[OS_TYPE]])
                 @@ (RUN_STAGE :> [present |-> TRUE, value |-> stage])
  /\ \E n \in 0..MaxVms, nf \in 0..MaxFirewalls, nn \in 0..MaxNetworks :
       \E kinds \in GroupVmKinds(n) :
         specs = <<Provisioned(kinds, nf, nn)>>
  /\ file = <<>>
  /\ calls = <<NoCalls(specs[1], "constructed", FALSE)>>
  /\ machines = <<>>
  /\ vm_pool = <<>>
  /\ last = [op |-> "__init__"]

Next ==
  \/ Delete
  \/ PickleSpec
  \/ GetSpecFromFile
  \/ \E stage \in RunStages : NewInvocation(stage)

Spec == Init /\ [][Next]_vars

-----------------------------------------------------------------------------
(* Teardown: the claims *)

\* The run stage lets Delete tear down.
StagePermitsTeardown == FLAGS[RUN_STAGE].value \in {"all", "cleanup"}

\* The last call was a Delete that found the spec not yet deleted under a
\* run stage that permits teardown.
TeardownPerformed ==
  last.op = "Delete" /\ ~last.was_deleted /\ StagePermitsTeardown

\* Every VM, firewall and network of the spec has had its teardown operation
\* invoked exactly n times since the spec object came to be.
AllInvoked(n) ==
  /\ \A i \in DOMAIN specs[1].vms : calls[1].DeleteVm[i] = n
  /\ \A i \in DOMAIN specs[1].firewalls : calls[1].DisallowAllPorts[i] = n
  /\ \A i \in DOMAIN specs[1].networks : calls[1].NetworkDelete[i] = n

\* The spec has at least one VM, two firewalls and two networks.
HasResources ==
  /\ Len(specs[1].vms) >= 1
  /\ Len(specs[1].firewalls) >= 2
  /\ Len(specs[1].networks) >= 2

\* C3: within one process, once a Delete permitted by the run stage has been
\* made on a spec, every later Delete on that spec invokes nothing: the
\* permitted call leaves deleted = true whatever failed, a call that finds
\* deleted = true invokes no operation, and so no VM deletion, firewall
\* DisallowAllPorts or network Delete is ever invoked twice on one spec.
C3_DeleteIdempotent ==
  specs # <<>> =>
    /\ Busiest(calls[1]) <= 1
    /\ last.op = "Delete" /\ StagePermitsTeardown => specs[1].deleted
    /\ last.op = "Delete" /\ last.was_deleted =>
         last.events = <<>> /\ last.logged = NothingLogged

\* A second Delete on a spec built in this process, whose first Delete tore
\* down every one of its resources.
C3_Witness ==
  /\ specs # <<>>
  /\ calls[1].origin = "constructed"
  /\ last.op = "Delete" /\ last.was_deleted /\ StagePermitsTeardown
  /\ HasResources
  /\ AllInvoked(1)

\* C4: the spec GetSpecFromFile returns has deleted = false, also when the
\* pickled image holds deleted = true; on a resumed spec, under a run stage
\* that permits teardown, the first Delete tears every resource down and any
\* further Delete does nothing, so each operation is invoked exactly once.
C4_ResumedSpecTearsDownOnce ==
  specs # <<>> =>
    /\ last.op = "GetSpecFromFile" /\ last.exc = "" => ~specs[1].deleted
    /\ calls[1].origin = "resumed" /\ last.op = "Delete" /\ StagePermitsTeardown =>
         /\ AllInvoked(1)
         /\ specs[1].deleted
         /\ last.was_deleted => last.events = <<>>

\* Delete, PickleSpec, GetSpecFromFile, Delete, Delete: the file held
\* deleted = true, the resumed spec tore its resources down once, and the
\* last Delete found it deleted.
C4_Witness ==
  /\ specs # <<>>
  /\ calls[1].origin = "resumed" /\ calls[1].pickled_deleted
  /\ last.op = "Delete" /\ last.was_deleted
  /\ HasResources
  /\ AllInvoked(1)

\* C5: a Delete made when the run stage is neither 'all' nor 'cleanup', or
\* when deleted is already true, invokes no operation on a VM, firewall or
\* network, raises nothing and leaves the spec, its deleted flag included,
\* and the pickled file as they were.
C5_BlockedDeleteIsNoOp ==
  [][(/\ specs # <<>>
      /\ last'.op = "Delete"
      /\ (~StagePermitsTeardown \/ specs[1].deleted))
       => /\ specs' = specs
          /\ calls' = calls
          /\ file' = file
          /\ last'.events = <<>>
          /\ last'.exc = ""]_vars

\* A Delete blocked by the run stage alone: the spec has resources, none was
\* touched and deleted is still false.
C5_Witness ==
  /\ specs # <<>>
  /\ last.op = "Delete" /\ ~last.was_deleted /\ ~StagePermitsTeardown
  /\ HasResources
  /\ AllInvoked(0)
  /\ ~specs[1].deleted

\* C6: in a Delete that performs teardown, whichever firewalls'
\* DisallowAllPorts and whichever networks' Delete raise, DisallowAllPorts is
\* invoked exactly once on every firewall and Delete exactly once on every
\* network of the spec.
C6_EveryFirewallAndNetworkAttempted ==
  TeardownPerformed =>
    /\ \A i \in DOMAIN specs[1].firewalls :
         Count(last.events, "DisallowAllPorts", specs[1].firewalls[i]) = 1
    /\ \A i \in DOMAIN specs[1].networks :
         Count(last.events, "Delete", specs[1].networks[i]) = 1

\* A teardown in which one of several firewalls and every one of several
\* networks raised.
C6_Witness ==
  /\ TeardownPerformed
  /\ HasResources
  /\ last.logged[LOG_FIREWALLS] = 1
  /\ last.logged[LOG_NETWORKS] = Len(specs[1].networks)

\* C7: a Delete that performs teardown returns normally with deleted = true
\* whatever fails in the VM fan-out, the firewalls and the networks; when the
\* VM fan-out raised, the exception was logged and every firewall and every
\* network was still attempted.
C7_TeardownAlwaysCompletes ==
  TeardownPerformed =>
    /\ last.exc = ""
    /\ specs[1].deleted
    /\ last.logged[LOG_VMS] > 0 =>
         /\ \A i \in DOMAIN specs[1].firewalls :
              Count(last.events, "DisallowAllPorts", specs[1].firewalls[i]) = 1
         /\ \A i \in DOMAIN specs[1].networks :
              Count(last.events, "Delete", specs[1].networks[i]) = 1

\* A teardown in which the VM fan-out, a firewall and a network all raised.
C7_Witness ==
  /\ TeardownPerformed
  /\ HasResources
  /\ last.logged[LOG_VMS] = 1
  /\ last.logged[LOG_FIREWALLS] >= 1
  /\ last.logged[LOG_NETWORKS] >= 1
  /\ last.exc = ""
  /\ specs[1].deleted

-----------------------------------------------------------------------------
(* Scratch disks of a GCE virtual machine *)

\* Disk type names, disk.py:28-49 (disk_LOCAL is disk.LOCAL).
EPHEMERAL_HDD == "ephemeral_hdd"
EPHEMERAL_SSD == "ephemeral_ssd"

\* disk.DiskTypeIsLocal, disk.py:35-36
DiskTypeIsLocal(disk_type) == disk_type \in {EPHEMERAL_HDD, EPHEMERAL_SSD}

STANDARD == "standard"
disk_LOCAL == "local"

\* GceVirtualMachine.__init__: max_local_disks = vm_spec.num_local_ssds; no
\* disk allocated yet (local numbers start at 1, remote ones after them).
GceVirtualMachine(name, num_local_ssds) ==
  [name |-> name,
   max_local_disks |-> num_local_ssds,
   local_disk_counter |-> 0,
   remote_disk_counter |-> 0,
   scratch_disks |-> <<>>]

\* gce_disk.GceDisk(disk_spec, name, zone, project) with its disk_number set.
GceDisk(disk_spec, name, disk_number) ==
  [name |-> name, disk_type |-> disk_spec.disk_type, disk_number |-> disk_number]

\* data_disk.disk_number = self.local_disk_counter + 1
LocalDiskNumber(vm) == vm.local_disk_counter + 1

RemoteDiskNumber_NoOffset(vm) == vm.remote_disk_counter + 1

\* data_disk.disk_number = self.remote_disk_counter + 1 + self.max_local_disks
RemoteDiskNumber(vm) == vm.remote_disk_counter + 1 + vm.max_local_disks

LocalDisksExhausted_Never(vm) == FALSE

\* if self.local_disk_counter > self.max_local_disks: raise
LocalDisksExhausted(vm) == vm.local_disk_counter > vm.max_local_disks

NOT_ENOUGH_LOCAL_DISKS == "Error: Not enough local disks."

\* The body of CreateScratchDisk's loop for stripe member i, on the VM as
\* the members before it left it: the VM afterwards, the disk made, and the
\* exception raised.
AllocateDisk(vm, disk_spec, i) ==
  IF disk_spec.disk_type = disk_LOCAL
  THEN LET data_disk == GceDisk(disk_spec, <<"local-ssd", vm.local_disk_counter>>,
                                LocalDiskNumber(vm))
           counted == [vm EXCEPT !.local_disk_counter = @ + 1]
       IN  [vm |-> counted, disk |-> data_disk,
            exc |-> IF LocalDisksExhausted(counted)
                    THEN NOT_ENOUGH_LOCAL_DISKS ELSE ""]
  ELSE LET data_disk == GceDisk(disk_spec, <<vm.name, "data", Len(vm.scratch_disks), i>>,
                                RemoteDiskNumber(vm))
       IN  [vm |-> [vm EXCEPT !.remote_disk_counter = @ + 1], disk |-> data_disk,
            exc |-> ""]

\* for i in xrange(disk_spec.num_striped_disks): ..., from member i on, with
\* `disks' collected so far.
RECURSIVE AllocateDisks(_, _, _, _)
AllocateDisks(vm, disk_spec, i, disks) ==
  IF i >= disk_spec.num_striped_disks
  THEN [vm |-> vm, disks |-> disks, exc |-> ""]
  ELSE LET r == AllocateDisk(vm, disk_spec, i)
       IN  IF r.exc # ""
           THEN [vm |-> r.vm, disks |-> disks, exc |-> r.exc]
           ELSE AllocateDisks(r.vm, disk_spec, i + 1, Append(disks, r.disk))

\* _CreateScratchDiskFromDisks: several disks are wrapped in one striped
\* disk, and the scratch disk joins the VM's inventory.
_CreateScratchDiskFromDisks(vm, disk_spec, disks) ==
  [vm EXCEPT !.scratch_disks =
     Append(@, [is_striped |-> Len(disks) > 1, disks |-> disks])]

\* CreateScratchDisk on `vm': the VM afterwards and the exception raised.
CreateScratchDiskRun(vm, disk_spec) ==
  LET r == AllocateDisks(vm, disk_spec, 0, <<>>)
  IN  IF r.exc # ""
      THEN [vm |-> r.vm, exc |-> r.exc]
      ELSE [vm |-> _CreateScratchDiskFromDisks(r.vm, disk_spec, r.disks), exc |-> ""]

\* Bounds of the model.
MaxLocalDisks == 2
MaxStripedDisks == 2
MaxDiskCalls == 3

\* The VMs of the model.
DiskVms == {<<"vm", 1>>, <<"vm", 2>>}

DiskTypes == {disk_LOCAL, STANDARD, EPHEMERAL_SSD}

DiskSpecs ==
  {[disk_type |-> t, num_striped_disks |-> n] :
     t \in DiskTypes, n \in 1..MaxStripedDisks}

\* The CreateScratchDisk calls made on a VM so far: every successful one
\* added a scratch disk, every failed one left the local counter one higher
\* above the maximum.
DiskCallsMade(vm) ==
  Len(vm.scratch_disks)
    + (IF vm.local_disk_counter > vm.max_local_disks
       THEN vm.local_disk_counter - vm.max_local_disks ELSE 0)

RECURSIVE Sum(_, _)
Sum(f, S) ==
  IF S = {} THEN 0
  ELSE LET x == CHOOSE y \in S : TRUE IN f[x] + Sum(f, S \ {x})

CreateScratchDisk(v, disk_spec) ==
  /\ Sum([w \in DiskVms |-> DiskCallsMade(machines[w])], DiskVms) < MaxDiskCalls
  /\ LET r == CreateScratchDiskRun(machines[v], disk_spec)
     IN  /\ machines' = [machines EXCEPT ![v] = r.vm]
         /\ last' = [op |-> "CreateScratchDisk", vm |-> v, disk_spec |-> disk_spec,
                     before |-> machines[v], exc |-> r.exc]
  /\ UNCHANGED <<FLAGS, specs, file, calls, vm_pool>>

InitDisk ==
  /\ FLAGS = (CLOUD :> [present |-> FALSE, value |-> FlagDefault[CLOUD]])
               @@ (OS_TYPE :> [present |-> FALSE, value |-> FlagDefault[OS_TYPE]])
               @@ (RUN_STAGE :> [present |-> FALSE, value |-> "all"])
  /\ specs = <<>>
  /\ file = <<>>
  /\ calls = <<>>
  /\ vm_pool = <<>>
  /\ \E num_local_ssds \in [DiskVms -> 0..MaxLocalDisks] :
       machines = [v \in DiskVms |-> GceVirtualMachine(v, num_local_ssds[v])]
  /\ last = [op |-> "__init__"]

NextDisk == \E v \in DiskVms, disk_spec \in DiskSpecs : CreateScratchDisk(v, disk_spec)

SpecDisk == InitDisk /\ [][NextDisk]_vars

-----------------------------------------------------------------------------
(* Scratch disks: the claims *)

\* The member disks of a VM's scratch disks, in the order they were allocated.
RECURSIVE Members(_)
Members(scratch_disks) ==
  IF scratch_disks = <<>> THEN <<>>
  ELSE Head(scratch_disks).disks \o Members(Tail(scratch_disks))

IsLocalDisk(d) == d.disk_type = disk_LOCAL
IsRemoteDisk(d) == d.disk_type # disk_LOCAL

\* The disks CreateScratchDisk numbered from the local counter (disk type
\* 'local'), and those it numbered from the remote counter.
LocalDisks(vm) == SelectSeq(Members(vm.scratch_disks), IsLocalDisk)
RemoteDisks(vm) == SelectSeq(Members(vm.scratch_disks), IsRemoteDisk)

\* The last call was a CreateScratchDisk that raised nothing.
DiskCallSucceeded == last.op = "CreateScratchDisk" /\ last.exc = ""

\* C8: on every VM the k-th local disk allocated has disk number k and the
\* j-th remote disk allocated has disk number max_local_disks + j, so both
\* ranges are contiguous, increasing and disjoint (local numbers stay within
\* 1..max_local_disks, 0 is never given); a successful call for local disks
\* advances the local counter only, one for remote disks the remote counter
\* only, each by the number of disks it allocated.
C8_DiskNumbering ==
  /\ \A v \in DOMAIN machines :
       LET vm == machines[v]
           local == LocalDisks(vm)
           remote == RemoteDisks(vm)
       IN  /\ \A k \in DOMAIN local :
                local[k].disk_number = k /\ k <= vm.max_local_disks
           /\ \A j \in DOMAIN remote :
                remote[j].disk_number = vm.max_local_disks + j
           /\ \A k \in DOMAIN local, j \in DOMAIN remote :
                0 < local[k].disk_number /\ local[k].disk_number < remote[j].disk_number
  /\ DiskCallSucceeded =>
       LET vm == machines[last.vm]
           n == last.disk_spec.num_striped_disks
       IN  IF last.disk_spec.disk_type = disk_LOCAL
           THEN /\ vm.local_disk_counter = last.before.local_disk_counter + n
                /\ vm.remote_disk_counter = last.before.remote_disk_counter
           ELSE /\ vm.remote_disk_counter = last.before.remote_disk_counter + n
                /\ vm.local_disk_counter = last.before.local_disk_counter

\* A VM with two local and two remote disks, allocated local, remote, local.
C8_Witness ==
  /\ DiskCallSucceeded
  /\ LET vm == machines[last.vm]
     IN  /\ Len(LocalDisks(vm)) = 2
         /\ Len(RemoteDisks(vm)) = 2
         /\ Len(vm.scratch_disks) = 3
         /\ IsLocalDisk(vm.scratch_disks[1].disks[1])
         /\ IsRemoteDisk(vm.scratch_disks[2].disks[1])
         /\ IsLocalDisk(vm.scratch_disks[3].disks[1])

\* The call asks for local disks and would bring the VM's count of local
\* disks allocated above the VM's max_local_disks.
ExceedsMaxLocalDisks(vm, disk_spec) ==
  /\ disk_spec.disk_type = disk_LOCAL
  /\ vm.local_disk_counter + disk_spec.num_striped_disks > vm.max_local_disks

\* C9: a CreateScratchDisk call that would bring the VM's count of local
\* disks allocated above its max_local_disks raises the allocation error and
\* adds nothing to the VM's scratch disks, also when only some members of the
\* stripe set exceed the maximum; every other call raises nothing and adds
\* one scratch disk; no call changes another VM.
C9_LocalDiskLimit ==
  [][last'.op = "CreateScratchDisk" =>
       LET v == last'.vm
       IN  /\ IF ExceedsMaxLocalDisks(machines[v], last'.disk_spec)
              THEN /\ last'.exc = NOT_ENOUGH_LOCAL_DISKS
                   /\ machines'[v].scratch_disks = machines[v].scratch_disks
              ELSE /\ last'.exc = ""
                   /\ Len(machines'[v].scratch_disks) = Len(machines[v].scratch_disks) + 1
                   /\ Len(machines'[v].scratch_disks[Len(machines'[v].scratch_disks)].disks)
                        = last'.disk_spec.num_striped_disks
           /\ \A w \in DOMAIN machines \ {v} : machines'[w] = machines[w]]_vars

\* A stripe set of two local disks on a VM with one local disk left raised,
\* the VM keeps the scratch disk it had, and the other VM, whose own maximum
\* is not reached, holds local disks of its own.
C9_Witness ==
  /\ last.op = "CreateScratchDisk"
  /\ last.exc = NOT_ENOUGH_LOCAL_DISKS
  /\ last.disk_spec.num_striped_disks = 2
  /\ last.before.local_disk_counter + 1 = last.before.max_local_disks
  /\ Len(machines[last.vm].scratch_disks) = 1
  /\ \E w \in DOMAIN machines \ {last.vm} : Len(LocalDisks(machines[w])) >= 1

-----------------------------------------------------------------------------
(* Spec objects built from the configuration's parameter bags *)

ALICLOUD == "AliCloud"
NUM_VMS == "num_vms"
SCRATCH_DIR == "scratch_dir"

\* Python's None in a field that otherwise holds a count or a size, and in a
\* field that otherwise holds a string.
None == -1
NoneStr == "None"

\* The truth value Python gives a count and a string.
IntTruthy(x) == x \notin {None, 0}
StrTruthy(x) == x \notin {NoneStr, ""}

\* `a or b'
IntOr(a, b) == IF IntTruthy(a) THEN a ELSE b
StrOr(a, b) == IF StrTruthy(a) THEN a ELSE b

TYPE_ERROR == "__init__() got an unexpected keyword argument"

\* cls(**kwargs) for a constructor whose keyword parameters and their
\* defaults are `defaults': a keyword it does not accept raises TypeError,
\* whose text quotes that keyword.
Construct(kwargs, defaults) ==
  LET unexpected == DOMAIN kwargs \ DOMAIN defaults
  IN  IF unexpected = {}
        THEN [exc |-> "", message |-> <<>>, value |-> <<kwargs @@ defaults>>]
        ELSE [exc |-> "TypeError",
              message |-> <<TYPE_ERROR, CHOOSE k \in unexpected : TRUE>>,
              value |-> <<>>]

\* BaseDiskSpec.__init__, disk.py:119-137
BaseDiskSpec ==
  [disk_size |-> None, disk_type |-> NoneStr, mount_point |-> NoneStr,
   num_striped_disks |-> 1, disk_number |-> None, device_path |-> NoneStr]

\* BaseDiskSpec.ApplyFlags, disk.py:139-144
BaseDiskSpec_ApplyFlags(self, flags) ==
  [self EXCEPT
     !.disk_size = IntOr(flags["disk_size"].value, @),
     !.disk_type = StrOr(flags["disk_type"].value, @),
     !.num_striped_disks = IntOr(flags["num_striped_disks"].value, @),
     !.mount_point = StrOr(flags[SCRATCH_DIR].value, @)]

\* virtual_machine.BaseVmSpec: the parameters every VM spec accepts.
BaseVmSpec == [machine_type |-> NoneStr, image |-> NoneStr, zone |-> NoneStr]

BaseVmSpec_ApplyFlags(self, flags) ==
  [self EXCEPT
     !.machine_type = StrOr(flags["machine_type"].value, @),
     !.image = StrOr(flags["image"].value, @)]

\* GceVmSpec.__init__, gce_virtual_machine.py:56-70
GceVmSpec ==
  [project |-> NoneStr, num_local_ssds |-> 0, preemptible |-> FALSE]
    @@ BaseVmSpec

GceVmSpec_ApplyFlags_Truthy(self, flags) ==
  LET base == BaseVmSpec_ApplyFlags(self, flags)
  IN  [base EXCEPT
         !.project = StrOr(flags["project"].value, @),
         !.num_local_ssds = IntOr(flags["gce_num_local_ssds"].value, @),
         !.preemptible = flags["gce_preemptible_vms"].value \/ @]

\* GceVmSpec.ApplyFlags, gce_virtual_machine.py:72-79
GceVmSpec_ApplyFlags(self, flags) ==
  LET base == BaseVmSpec_ApplyFlags(self, flags)
  IN  [base EXCEPT
         !.project = StrOr(flags["project"].value, @),
         !.num_local_ssds = IF flags["gce_num_local_ssds"].present
                              THEN flags["gce_num_local_ssds"].value ELSE @,
         !.preemptible = IF flags["gce_preemptible_vms"].present
                           THEN flags["gce_preemptible_vms"].value ELSE @]

\* static_vm.StaticVmSpec: the parameters a static VM descriptor may give.
StaticVmSpec ==
  [ip_address |-> NoneStr, os_type |-> DEBIAN, install_packages |-> TRUE]

\* virtual_machine.GetVmSpecClass(cloud), disk.GetDiskSpecClass(cloud)
GetVmSpecClass(cloud) == IF cloud = GCP THEN GceVmSpec ELSE BaseVmSpec
GetDiskSpecClass(cloud) == BaseDiskSpec

VmSpec_ApplyFlags(cloud, self, flags) ==
  IF cloud = GCP THEN GceVmSpec_ApplyFlags(self, flags)
                 ELSE BaseVmSpec_ApplyFlags(self, flags)

\* virtual_machine.GetVmClass(cloud, os_type): the registered VM classes.
\* The GCE ones are gce_virtual_machine.py:252-270.
VmClasses == ({GCP} \X OsTypes) \cup {<<ALICLOUD, DEBIAN>>}

-----------------------------------------------------------------------------
(* ConstructVirtualMachines, benchmark_spec.py:162-217 *)

CONFIG_ERROR == "Config contained an unexpected parameter. Error message:"
UNSUPPORTED(os_type, cloud) ==
  <<"VMs of type", os_type, "are not currently supported on cloud", cloud>>

\* The VM object vm_class(vm_spec) makes: it copies the spec's values.
VirtualMachine(name, cloud, os_type, vm_spec) ==
  [name |-> name, is_static |-> FALSE, install_packages |-> TRUE,
   cloud |-> cloud, os_type |-> os_type, vm_spec |-> vm_spec,
   disk_specs |-> <<>>, remote_access_ports |-> <<22>>]

\* static_vm_class(vm_spec), line 180
StaticVirtualMachine(name, vm_spec) ==
  [name |-> name, is_static |-> TRUE,
   install_packages |-> vm_spec.install_packages,
   cloud |-> "static", os_type |-> vm_spec.os_type, vm_spec |-> vm_spec,
   disk_specs |-> <<>>, remote_access_ports |-> <<22>>]

\* sequence[:n]
Take(sequence, n) ==
  SubSeq(sequence, 1, IF n < Len(sequence) THEN n ELSE Len(sequence))

\* Lines 177-180: the static VMs of a group, until a descriptor is refused.
RECURSIVE StaticVms(_, _, _)
StaticVms(self, static_vm_specs, vms) ==
  IF static_vm_specs = <<>>
    THEN [exc |-> "", message |-> <<>>, vms |-> vms]
    ELSE LET vm_spec == Construct(Head(static_vm_specs), StaticVmSpec)
             name == <<"static", Len(self.vms) + Len(vms) + 1>>
         IN  IF vm_spec.exc # ""
               THEN [exc |-> vm_spec.exc, message |-> vm_spec.message,
                     vms |-> vms]
               ELSE StaticVms(self, Tail(static_vm_specs),
                      Append(vms, StaticVirtualMachine(name, vm_spec.value[1])))

\* Lines 190-195: the group's disk spec, <<>> for None.
GroupDiskSpec(group_spec, cloud) ==
  IF DISK_SPEC \in DOMAIN group_spec
    THEN LET made == Construct(group_spec[DISK_SPEC][cloud],
                               GetDiskSpecClass(cloud))
         IN  IF made.exc # "" THEN made
             ELSE [made EXCEPT
                     !.value = <<BaseDiskSpec_ApplyFlags(made.value[1], FLAGS)>>]
    ELSE [exc |-> "", message |-> <<>>, value |-> <<>>]

\* _CreateVirtualMachine, lines 254-276: a VM of the static pool when there
\* is one, else a VM of the class registered for the cloud and OS type.
_CreateVirtualMachine(pool, name, vm_spec, os_type, cloud) ==
  IF pool # <<>>
    THEN [exc |-> "", vm |-> <<Head(pool)>>, vm_pool |-> Tail(pool)]
  ELSE IF <<cloud, os_type>> \notin VmClasses
    THEN [exc |-> "Error", vm |-> <<>>, vm_pool |-> pool]
  ELSE [exc |-> "", vm |-> <<VirtualMachine(name, cloud, os_type, vm_spec)>>,
        vm_pool |-> pool]

RECURSIVE Suffixed(_, _)
Suffixed(mount_point, n) ==
  IF n = 0 THEN mount_point
  ELSE Suffixed(mount_point, n - 1) \o ToString(n - 1)

DiskSpecCopies_Shared(disk_spec, disk_count) ==
  [i \in 1..disk_count |->
     IF disk_count > 1 /\ StrTruthy(disk_spec.mount_point)
       THEN [disk_spec EXCEPT !.mount_point = Suffixed(@, disk_count)]
       ELSE disk_spec]

\* Lines 208-213: one copy of the disk spec per disk (copy.copy makes a new
\* object each time, and += binds a new string to the copy's mount_point);
\* with several disks and a mount point, the copies' mount points get their
\* index appended.
DiskSpecCopies(disk_spec, disk_count) ==
  [i \in 1..disk_count |->
     IF disk_count > 1 /\ StrTruthy(disk_spec.mount_point)
       THEN [disk_spec EXCEPT !.mount_point = @ \o ToString(i - 1)]
       ELSE disk_spec]

\* Lines 204-214: the remaining VMs of a group.
RECURSIVE CreateRemaining(_, _, _, _, _)
CreateRemaining(self, group, n, vms, pool) ==
  IF n <= 0
    THEN [exc |-> "", vms |-> vms, vm_pool |-> pool]
    ELSE LET vm_spec == VmSpec_ApplyFlags(group.cloud, group.vm_spec, FLAGS)
             name == <<"vm", Len(self.vms) + Len(vms) + 1>>
             made == _CreateVirtualMachine(pool, name, vm_spec,
                                           group.os_type, group.cloud)
         IN  IF made.exc # ""
               THEN [exc |-> made.exc, vms |-> vms, vm_pool |-> made.vm_pool]
               ELSE LET vm == IF group.disk_spec # <<>>
                                THEN [made.vm[1] EXCEPT !.disk_specs =
                                        DiskSpecCopies(group.disk_spec[1],
                                                       group.disk_count)]
                                ELSE made.vm[1]
                    IN  CreateRemaining(self, [group EXCEPT !.vm_spec = vm_spec],
                                        n - 1, Append(vms, vm), made.vm_pool)

\* The first of the constructions of the try block (lines 173-195) that
\* raised, in the order the block makes them.
FirstRaised(outcomes) ==
  LET raised == {i \in DOMAIN outcomes : outcomes[i].exc # ""}
  IN  IF raised = {} THEN [exc |-> "", message |-> <<>>]
      ELSE LET i == CHOOSE j \in raised : \A k \in raised : j <= k
           IN  [exc |-> outcomes[i].exc, message |-> outcomes[i].message]

\* The body of the loop over the groups, lines 167-217.
ConstructGroup(self, pool, group_name) ==
  LET group_spec == self.config[VM_GROUPS][group_name]
      count == IF VM_COUNT \in DOMAIN group_spec
                 THEN group_spec[VM_COUNT] ELSE DEFAULT_COUNT
      vm_count == IF count = None THEN FLAGS[NUM_VMS].value ELSE count
      disk_count == IF DISK_COUNT \in DOMAIN group_spec
                      THEN group_spec[DISK_COUNT] ELSE DEFAULT_COUNT
      static == IF STATIC_VMS \in DOMAIN group_spec
                  THEN StaticVms(self, Take(group_spec[STATIC_VMS], vm_count),
                                 <<>>)
                  ELSE [exc |-> "", message |-> <<>>, vms |-> <<>>]
      os_type == _GetOsTypeForGroup(self, group_name)
      cloud == _GetCloudForGroup(self, group_name)
      vm_spec == Construct(group_spec[VM_SPEC][cloud], GetVmSpecClass(cloud))
      disk_spec == GroupDiskSpec(group_spec, cloud)
      tried == FirstRaised(<<static, vm_spec, disk_spec>>)
  IN  IF tried.exc = "TypeError"
        THEN [self |-> self, vm_pool |-> pool, exc |-> "ValueError",
              message |-> <<CONFIG_ERROR>> \o tried.message,
              group |-> group_name]
        ELSE LET group == [cloud |-> cloud, os_type |-> os_type,
                           vm_spec |-> vm_spec.value[1],
                           disk_spec |-> disk_spec.value,
                           disk_count |-> disk_count]
                 rest == CreateRemaining(self, group,
                                         vm_count - Len(static.vms),
                                         static.vms, pool)
             IN  IF rest.exc # ""
                   THEN [self |-> self, vm_pool |-> rest.vm_pool,
                         exc |-> rest.exc,
                         message |-> UNSUPPORTED(os_type, cloud),
                         group |-> group_name]
                   ELSE [self |-> [self EXCEPT
                                     !.vm_groups = (group_name :> rest.vms) @@ @,
                                     !.vms = @ \o rest.vms],
                         vm_pool |-> rest.vm_pool, exc |-> "",
                         message |-> <<>>, group |-> ""]

\* The loop of line 166 over the groups in the order `order'; an exception
\* leaves the loop.
RECURSIVE ConstructGroups(_, _, _)
ConstructGroups(self, pool, order) ==
  IF order = <<>>
    THEN [self |-> self, vm_pool |-> pool, exc |-> "", message |-> <<>>,
          group |-> ""]
    ELSE LET done == ConstructGroup(self, pool, Head(order))
         IN  IF done.exc # "" THEN done
             ELSE ConstructGroups(done.self, done.vm_pool, Tail(order))

\* The orders in which a dict may hand out its keys.
Orders(keys) ==
  {order \in [1..Cardinality(keys) -> keys] :
     \A i, j \in DOMAIN order : i # j => order[i] # order[j]}

MaxVmCount == 2
MaxStaticVms == 2
MaxPoolVms == 1

\* ConstructVirtualMachines on a spec that has constructed nothing yet, as
\* the program calls it right after BenchmarkSpec.__init__.
ConstructVirtualMachines ==
  /\ specs # <<>>
  /\ specs[1].vms = <<>> /\ specs[1].vm_groups = <<>>
  /\ \E order \in Orders(DOMAIN specs[1].config[VM_GROUPS]) :
       LET done == ConstructGroups(specs[1], vm_pool, order)
       IN  /\ specs' = <<done.self>>
           /\ vm_pool' = done.vm_pool
           /\ last' = [op |-> "ConstructVirtualMachines", order |-> order,
                       before |-> specs[1], pool |-> vm_pool,
                       exc |-> done.exc,
                       message |-> done.message, group |-> done.group]
           /\ calls' = IF calls = <<>> THEN calls
                       ELSE <<NoCalls(done.self, calls[1].origin,
                                      calls[1].pickled_deleted)>>
  /\ UNCHANGED <<FLAGS, file, machines>>

\* Parameter bags of a configuration: one the constructor accepts, and one
\* with a parameter more, which the constructor of that cloud does not accept.
StaticVmBags ==
  [good |-> ("ip_address" :> "10.0.0.1") @@ ("install_packages" :> FALSE),
   bad |-> ("ip_address" :> "10.0.0.2") @@ ("ssh_key" :> "id_rsa")]
GcpVmBags ==
  [good |-> ("machine_type" :> "n1-standard-1") @@ ("num_local_ssds" :> 1),
   bad |-> ("machine_type" :> "n1-standard-1") @@ ("num_local_ssd" :> 1)]
AliVmBags ==
  [good |-> ("machine_type" :> "ecs.t1"),
   bad |-> ("machine_type" :> "ecs.t1") @@ ("project" :> "p")]
VmSpecBags ==
  {(GCP :> GcpVmBags.good) @@ (ALICLOUD :> AliVmBags.good),
   (GCP :> GcpVmBags.bad) @@ (ALICLOUD :> AliVmBags.good),
   (GCP :> GcpVmBags.good) @@ (ALICLOUD :> AliVmBags.bad)}
DiskBags ==
  [good |-> ("mount_point" :> "/scratch"),
   unmounted |-> ("disk_size" :> 100),
   bad |-> ("mount_point" :> "/scratch") @@ ("iops" :> 100)]
\* The disk part of a group: no disk spec, one disk, two disks with and
\* without a mount point, and a disk spec whose GCP bag has a parameter
\* BaseDiskSpec does not accept.
DiskParts ==
  {<<>>,
   (DISK_SPEC :> ((GCP :> DiskBags.good) @@ (ALICLOUD :> DiskBags.good))),
   (DISK_SPEC :> ((GCP :> DiskBags.good) @@ (ALICLOUD :> DiskBags.good)))
     @@ (DISK_COUNT :> 2),
   (DISK_SPEC :> ((GCP :> DiskBags.unmounted) @@ (ALICLOUD :> DiskBags.unmounted)))
     @@ (DISK_COUNT :> 2),
   (DISK_SPEC :> ((GCP :> DiskBags.bad) @@ (ALICLOUD :> DiskBags.good)))}

\* Static VM descriptor lists of up to n descriptors, each machine with an
\* address of its own, at most one of them with a parameter StaticVmSpec
\* does not accept.
StaticVmLists(n) ==
  UNION {{[i \in 1..len |->
             IF i = at THEN StaticVmBags.bad
             ELSE ("ip_address" :> ("10.0.1." \o ToString(i)))
                    @@ StaticVmBags.good] : at \in 0..len}
           : len \in 0..n}

ConstructGroupSpecs ==
  {count @@ static @@ cloud @@ os @@ (VM_SPEC :> vm_spec) @@ disks :
     count \in Optional(VM_COUNT, {None} \cup 0..MaxVmCount),
     static \in Optional(STATIC_VMS, StaticVmLists(MaxStaticVms)),
     cloud \in Optional(CLOUD, {ALICLOUD}),
     os \in Optional(OS_TYPE, {WINDOWS}),
     vm_spec \in VmSpecBags,
     disks \in DiskParts}

\* A second group that leaves everything to the defaults.
PlainGroupSpecs ==
  {(VM_SPEC :> ((GCP :> gcp) @@ (ALICLOUD :> AliVmBags.good))) :
     gcp \in {GcpVmBags.good, GcpVmBags.bad}}

NotGiven(value) == [present |-> FALSE, value |-> value]

ConstructFlags(num_vms) ==
  (CLOUD :> NotGiven(FlagDefault[CLOUD]))
    @@ (OS_TYPE :> NotGiven(FlagDefault[OS_TYPE]))
    @@ (RUN_STAGE :> NotGiven("all"))
    @@ (NUM_VMS :> num_vms)
    @@ (SCRATCH_DIR :> NotGiven(NoneStr))
    @@ [f \in {"disk_type", "machine_type", "image", "project"}
          |-> NotGiven(NoneStr)]
    @@ [f \in {"disk_size", "num_striped_disks"} |-> NotGiven(None)]
    @@ ("gce_num_local_ssds" :> NotGiven(0))
    @@ ("gce_preemptible_vms" :> NotGiven(FALSE))

InitConstruct ==
  /\ \E num_vms \in {[present |-> TRUE, value |-> MaxVmCount]},
        default \in ConstructGroupSpecs, workers \in PlainGroupSpecs :
       /\ FLAGS = ConstructFlags(num_vms)
       /\ specs = <<BenchmarkSpec(
                      VM_GROUPS :> (("default" :> default) @@ ("workers" :> workers)),
                      "bench", "uid")>>
  /\ \E n \in 0..MaxPoolVms :
       vm_pool = [k \in 1..n |-> StaticVirtualMachine(<<"pool", k>>, StaticVmSpec)]
  /\ file = <<>>
  /\ calls = <<>>
  /\ machines = <<>>
  /\ last = [op |-> "__init__"]

NextConstruct == ConstructVirtualMachines

SpecConstruct == InitConstruct /\ [][NextConstruct]_vars

-----------------------------------------------------------------------------
(* ConstructVirtualMachines: the claims *)

ConstructCalled == last.op = "ConstructVirtualMachines"

\* The groups the last call got to: all of them when it returned, else those
\* up to the one it raised for.
ReachedGroups ==
  {last.order[i] : i \in {j \in DOMAIN last.order :
     last.exc = "" \/ \A k \in 1..(j - 1) : last.order[k] # last.group}}

\* The parameters of a group's bags that the constructor given the bag does
\* not accept: of the static VM descriptors within the group's VM count, of
\* the VM-spec bag and of the disk-spec bag of the group's cloud.
RefusedParameters(self, group_name) ==
  LET group_spec == self.config[VM_GROUPS][group_name]
      count == IF VM_COUNT \in DOMAIN group_spec
                 THEN group_spec[VM_COUNT] ELSE DEFAULT_COUNT
      vm_count == IF count = None THEN FLAGS[NUM_VMS].value ELSE count
      cloud == _GetCloudForGroup(self, group_name)
      static == IF STATIC_VMS \in DOMAIN group_spec
                  THEN Take(group_spec[STATIC_VMS], vm_count) ELSE <<>>
  IN  UNION {DOMAIN static[i] \ DOMAIN StaticVmSpec : i \in DOMAIN static}
        \cup (DOMAIN group_spec[VM_SPEC][cloud] \ DOMAIN GetVmSpecClass(cloud))
        \cup (IF DISK_SPEC \in DOMAIN group_spec
                THEN DOMAIN group_spec[DISK_SPEC][cloud]
                       \ DOMAIN GetDiskSpecClass(cloud)
                ELSE {})

MessageNames(word) == \E i \in DOMAIN last.message : last.message[i] = word

\* The VMs of the groups in vm_groups, group after group in the loop's order.
RECURSIVE GroupedVms(_, _)
GroupedVms(self, order) ==
  IF order = <<>> THEN <<>>
  ELSE (IF Head(order) \in DOMAIN self.vm_groups
          THEN self.vm_groups[Head(order)] ELSE <<>>)
         \o GroupedVms(self, Tail(order))

\* What the configuration error of ConstructVirtualMachines does guarantee:
\* it is raised for the first group the loop reaches that hands a constructor
\* a parameter it does not accept, its message quotes such a parameter, it
\* is raised for no other reason, and the group it is raised for is in
\* neither vm_groups nor vms.
ConfigErrorContract ==
  ConstructCalled =>
    /\ \A g \in ReachedGroups :
         RefusedParameters(last.before, g) # {} =>
           /\ last.exc = "ValueError" /\ last.group = g
           /\ \E k \in RefusedParameters(last.before, g) : MessageNames(k)
    /\ last.exc = "ValueError" =>
         /\ RefusedParameters(last.before, last.group) # {}
         /\ last.group \notin DOMAIN specs[1].vm_groups
         /\ specs[1].vms = GroupedVms(specs[1], last.order)

\* C10: ConstructVirtualMachines raises a configuration error that identifies
\* the benchmark and the offending key whenever a bag it hands to a spec
\* constructor has a parameter the constructor does not accept, never raises
\* it when all parameters are known, and when it raises for a group no VM of
\* that group is in vm_groups or vms.
C10_ConfigErrorNamesBenchmarkAndKey ==
  ConstructCalled =>
    /\ \A g \in ReachedGroups :
         RefusedParameters(last.before, g) # {} =>
           /\ last.exc = "ValueError" /\ last.group = g
           /\ MessageNames(last.before.name)
           /\ \E k \in RefusedParameters(last.before, g) : MessageNames(k)
    /\ last.exc = "ValueError" =>
         /\ RefusedParameters(last.before, last.group) # {}
         /\ last.group \notin DOMAIN specs[1].vm_groups
         /\ specs[1].vms = GroupedVms(specs[1], last.order)

\* A configuration error raised for the second group of the loop, after the
\* first group's VMs were added.
ConfigErrorRaised ==
  /\ ConstructCalled
  /\ last.exc = "ValueError"
  /\ last.order[2] = last.group
  /\ specs[1].vms # <<>>

-----------------------------------------------------------------------------
(* _CreateVirtualMachine within ConstructVirtualMachines: the claims *)

\* The VM count of a group and the static VM descriptors within it, as
\* lines 168-176 compute them.
GroupVmCount(self, group_name) ==
  LET group_spec == self.config[VM_GROUPS][group_name]
      count == IF VM_COUNT \in DOMAIN group_spec
                 THEN group_spec[VM_COUNT] ELSE DEFAULT_COUNT
  IN  IF count = None THEN FLAGS[NUM_VMS].value ELSE count

GroupStaticSpecs(self, group_name) ==
  LET group_spec == self.config[VM_GROUPS][group_name]
  IN  IF STATIC_VMS \in DOMAIN group_spec
        THEN Take(group_spec[STATIC_VMS], GroupVmCount(self, group_name))
        ELSE <<>>

\* A group the last call got to whose bags were all accepted and for which
\* it requested a dynamic VM of a cloud and OS type with no registered class.
UnsupportedRequested(g) ==
  /\ g \in ReachedGroups
  /\ RefusedParameters(last.before, g) = {}
  /\ GroupVmCount(last.before, g) > Len(GroupStaticSpecs(last.before, g))
  /\ <<_GetCloudForGroup(last.before, g), _GetOsTypeForGroup(last.before, g)>>
       \notin VmClasses

\* What does hold: with an empty static VM pool, a dynamic VM requested for
\* an unsupported combination raises errors.Error and the group gets no VM.
UnsupportedCombinationContract ==
  ConstructCalled /\ last.pool = <<>> =>
    \A g \in DOMAIN last.before.config[VM_GROUPS] :
      UnsupportedRequested(g) =>
        /\ last.exc = "Error" /\ last.group = g
        /\ g \notin DOMAIN specs[1].vm_groups

\* C11: a dynamic VM requested for a (cloud, OS type) combination with no
\* registered VM class makes _CreateVirtualMachine fail with the
\* unsupported-combination error and return no VM; no other VM, a machine
\* of the static VM pool included, is handed out for that combination.
C11_UnsupportedCombinationFails ==
  ConstructCalled =>
    \A g \in DOMAIN last.before.config[VM_GROUPS] :
      UnsupportedRequested(g) =>
        /\ last.exc = "Error" /\ last.group = g
        /\ g \notin DOMAIN specs[1].vm_groups
        /\ vm_pool = last.pool

-----------------------------------------------------------------------------
(* One VM on its thread: PrepareVm and DeleteVm, benchmark_spec.py:278-311 *)

\* A method of the VM called with an argument (0 when it takes none that
\* matters here): the port of AllowPort, the position in vm.disk_specs of
\* the disk spec given to CreateScratchDisk.
Step(call, arg) == [call |-> call, arg |-> arg]

\* any((spec.disk_type == disk.LOCAL for spec in vm.disk_specs)), line 293
AnyLocalDiskSpec(vm) ==
  \E i \in DOMAIN vm.disk_specs : vm.disk_specs[i].disk_type = disk_LOCAL

PrepareVmSteps_EnvironmentFirst(vm) ==
  <<Step("Create", 0)>>
    \o [i \in DOMAIN vm.remote_access_ports |->
          Step("AllowPort", vm.remote_access_ports[i])]
    \o <<Step("AddMetadata", 0), Step("WaitForBootCompletion", 0),
         Step("OnStartup", 0)>>
    \o (IF AnyLocalDiskSpec(vm) THEN <<Step("SetupLocalDisks", 0)>> ELSE <<>>)
    \o <<Step("PrepareVMEnvironment", 0)>>
    \o [i \in DOMAIN vm.disk_specs |-> Step("CreateScratchDisk", i)]

\* The methods PrepareVm calls on a VM, in order (lines 284-300).
PrepareVmSteps(vm) ==
  <<Step("Create", 0)>>
    \o [i \in DOMAIN vm.remote_access_ports |->
          Step("AllowPort", vm.remote_access_ports[i])]
    \o <<Step("AddMetadata", 0), Step("WaitForBootCompletion", 0),
         Step("OnStartup", 0)>>
    \o (IF AnyLocalDiskSpec(vm) THEN <<Step("SetupLocalDisks", 0)>> ELSE <<>>)
    \o [i \in DOMAIN vm.disk_specs |-> Step("CreateScratchDisk", i)]
    \o <<Step("PrepareVMEnvironment", 0)>>

\* PrepareVm on one VM when its fail-th call raises (none when fail is 0):
\* the calls made, the raising one included, and the exception that left it.
PrepareVm(vm, fail) ==
  LET steps == PrepareVmSteps(vm)
  IN  IF fail \in DOMAIN steps
        THEN [events |-> SubSeq(steps, 1, fail), exc |-> "Exception"]
        ELSE [events |-> steps, exc |-> ""]

MaxDiskSpecs == 2

\* The disk specs a VM may carry, and the ports it is reached on (one for
\* SSH, two for a Windows VM).
VmDiskSpecs ==
  UNION {[1..n -> {[BaseDiskSpec EXCEPT !.disk_type = t] : t \in DiskTypes}]
           : n \in 0..MaxDiskSpecs}
RemoteAccessPorts == {<<22>>, <<3389, 5986>>}

PrepareOneVm(i, fail) ==
  /\ i \in DOMAIN specs[1].vms
  /\ fail \in 0..Len(PrepareVmSteps(specs[1].vms[i]))
  /\ LET ran == PrepareVm(specs[1].vms[i], fail)
     IN  last' = [op |-> "PrepareVm", vm |-> i, events |-> ran.events,
                  exc |-> ran.exc]
  /\ UNCHANGED <<FLAGS, specs, file, calls, machines, vm_pool>>

DeleteOneVm(i, fail) ==
  /\ i \in DOMAIN specs[1].vms
  /\ LET ran == DeleteVm(specs[1].vms[i], fail)
     IN  last' = [op |-> "DeleteVm", vm |-> i, events |-> ran.events,
                  exc |-> ran.exc]
  /\ UNCHANGED <<FLAGS, specs, file, calls, machines, vm_pool>>

InitVm ==
  /\ FLAGS = (CLOUD :> NotGiven(FlagDefault[CLOUD]))
               @@ (OS_TYPE :> NotGiven(FlagDefault[OS_TYPE]))
               @@ (RUN_STAGE :> NotGiven("all"))
  /\ \E is_static \in BOOLEAN, install_packages \in BOOLEAN,
        disk_specs \in VmDiskSpecs, ports \in RemoteAccessPorts :
       specs = <<[BenchmarkSpec(VM_GROUPS :> <<>>, "bench", "uid") EXCEPT
                    !.vms = <<[name |-> <<"vm", 1>>, is_static |-> is_static,
                               install_packages |-> install_packages,
                               disk_specs |-> disk_specs,
                               remote_access_ports |-> ports]>>]>>
  /\ file = <<>>
  /\ calls = <<>>
  /\ machines = <<>>
  /\ vm_pool = <<>>
  /\ last = [op |-> "__init__"]

NextVm ==
  \/ \E fail \in 0..Len(PrepareVmSteps(specs[1].vms[1])) : PrepareOneVm(1, fail)
  \/ \E fail \in FailPoints : DeleteOneVm(1, fail)

SpecVm == InitVm /\ [][NextVm]_vars

-----------------------------------------------------------------------------
(* Prepare, benchmark_spec.py:219-226 *)

\* vm_util.RunThreaded(lambda net: net.Create(), self.networks.values())
NetworkCreateStage(self, raising) ==
  RunThreaded("Create",
              [i \in DOMAIN self.networks |-> [name |-> self.networks[i]]],
              [i \in DOMAIN self.networks |->
                 Invoke("Create", self.networks[i], i \in raising)])

VmPrepareStage_Sequential(self, fail) ==
  LET first == IF \E i \in DOMAIN fail : fail[i] # 0
                 THEN CHOOSE i \in DOMAIN fail :
                        fail[i] # 0 /\ \A j \in 1..(i - 1) : fail[j] = 0
                 ELSE Len(self.vms)
  IN  RunThreaded("PrepareVm", SubSeq(self.vms, 1, first),
                  [i \in 1..first |-> PrepareVm(self.vms[i], fail[i])])

\* vm_util.RunThreaded(self.PrepareVm, self.vms)
VmPrepareStage(self, fail) ==
  RunThreaded("PrepareVm", self.vms,
              [i \in DOMAIN self.vms |-> PrepareVm(self.vms[i], fail[i])])

\* if FLAGS.os_type != WINDOWS: vm_util.GenerateSSHConfig(self.vms)
SshConfigStage(self, raises) ==
  IF FLAGS[OS_TYPE].value # WINDOWS
    THEN Invoke("GenerateSSHConfig", <<"vms", 0>>, raises)
    ELSE Ran(<<>>)

PrepareRun_DespiteNetworks(self, raising, fail, ssh_raises) ==
  LET nets == NetworkCreateStage(self, raising)
      reached == self.vms # <<>>
      fanout == VmPrepareStage(self, fail)
      rest == IF reached THEN Then(fanout, SshConfigStage(self, ssh_raises))
                         ELSE Ran(<<>>)
  IN  [events |-> nets.events \o rest.events,
       exc |-> IF nets.exc # "" THEN nets.exc ELSE rest.exc,
       networks_failed |-> nets.failed,
       failed |-> IF reached THEN fanout.failed ELSE {},
       vm_ran |-> [i \in {j \in DOMAIN self.vms : reached}
                     |-> PrepareVm(self.vms[i], fail[i])]]

PrepareRun_Rollback(self, raising, fail, ssh_raises) ==
  LET nets == NetworkCreateStage(self, raising)
      reached == nets.exc = "" /\ self.vms # <<>>
      fanout == VmPrepareStage(self, fail)
      ran == IF reached
               THEN Then(nets, Then(fanout, SshConfigStage(self, ssh_raises)))
               ELSE Then(nets, Ran(<<>>))
      undo == RunThreaded("Delete",
                [i \in DOMAIN self.networks |-> [name |-> self.networks[i]]],
                [i \in DOMAIN self.networks |->
                   Invoke("Delete", self.networks[i], FALSE)])
  IN  [events |-> IF ran.exc = "" THEN ran.events ELSE ran.events \o undo.events,
       exc |-> ran.exc,
       networks_failed |-> nets.failed,
       failed |-> IF reached THEN fanout.failed ELSE {},
       vm_ran |-> [i \in {j \in DOMAIN self.vms :
                            reached /\ Count(fanout.events, "PrepareVm",
                                             self.vms[j].name) > 0}
                     |-> PrepareVm(self.vms[i], fail[i])]]

\* Prepare on `self' when the networks in `raising' fail to be created, the
\* fail[i]-th call of PrepareVm on VM i raises and GenerateSSHConfig raises
\* or not: what the call invoked, the exception that left it, and for the VM
\* fan-out, when it was reached, the VMs whose PrepareVm raised and what
\* PrepareVm did on each VM it was started for.
PrepareRun(self, raising, fail, ssh_raises) ==
  LET nets == NetworkCreateStage(self, raising)
      reached == nets.exc = "" /\ self.vms # <<>>
      fanout == VmPrepareStage(self, fail)
      ran == IF reached
               THEN Then(nets, Then(fanout, SshConfigStage(self, ssh_raises)))
               ELSE Then(nets, Ran(<<>>))
  IN  [events |-> ran.events, exc |-> ran.exc,
       networks_failed |-> nets.failed,
       failed |-> IF reached THEN fanout.failed ELSE {},
       vm_ran |-> [i \in {j \in DOMAIN self.vms :
                            reached /\ Count(fanout.events, "PrepareVm",
                                             self.vms[j].name) > 0}
                     |-> PrepareVm(self.vms[i], fail[i])]]

\* In the fan-out a VM's preparation raises at its first call, at its last
\* call or not at all; SpecVm has it raise at every call.
PrepareFailPoints(vm) == {0, 1, Len(PrepareVmSteps(vm))}

PrepareOutcomes(self) ==
  {PrepareRun(self, raising, fail, ssh_raises) :
     raising \in SUBSET DOMAIN self.networks,
     fail \in {f \in [DOMAIN self.vms ->
                         UNION {PrepareFailPoints(self.vms[i]) : i \in DOMAIN self.vms}] :
                 \A i \in DOMAIN self.vms : f[i] \in PrepareFailPoints(self.vms[i])},
     ssh_raises \in BOOLEAN}

Prepare ==
  /\ specs # <<>>
  /\ \E r \in PrepareOutcomes(specs[1]) :
       last' = [op |-> "Prepare", before |-> specs[1],
                events |-> r.events, exc |-> r.exc,
                networks_failed |-> r.networks_failed,
                failed |-> r.failed, vm_ran |-> r.vm_ran]
  /\ UNCHANGED <<FLAGS, specs, file, calls, machines, vm_pool>>

MaxPreparedVms == 2

\* The disk specs the VMs of the spec share: none, or a local and a
\* standard disk.
PreparedDiskSpecs ==
  {<<>>, <<[BaseDiskSpec EXCEPT !.disk_type = disk_LOCAL],
           [BaseDiskSpec EXCEPT !.disk_type = STANDARD]>>}

\* A constructed spec with one or two networks and one firewall, about to
\* be prepared.
InitPrepare ==
  /\ \E stage \in {"all", "provision"},
        os \in {NotGiven(DEBIAN), [present |-> TRUE, value |-> WINDOWS]} :
       FLAGS = (CLOUD :> NotGiven(FlagDefault[CLOUD]))
                 @@ (OS_TYPE :> os)
                 @@ (RUN_STAGE :> [present |-> TRUE, value |-> stage])
  /\ \E n \in 0..MaxPreparedVms, disk_specs \in PreparedDiskSpecs,
        networks \in {1, 2} :
       \E kinds \in GroupVmKinds(n) :
         specs = <<[Provisioned(kinds, 1, networks) EXCEPT
                      !.vms = [i \in DOMAIN kinds |->
                                 [name |-> <<"vm", i>>,
                                  is_static |-> kinds[i].is_static,
                                  install_packages |-> kinds[i].install_packages,
                                  disk_specs |-> disk_specs,
                                  remote_access_ports |-> <<22>>]]]>>
  /\ file = <<>>
  /\ calls = <<NoCalls(specs[1], "constructed", FALSE)>>
  /\ machines = <<>>
  /\ vm_pool = <<>>
  /\ last = [op |-> "__init__"]

NextPrepare == Prepare \/ Delete

SpecPrepare == InitPrepare /\ [][NextPrepare]_vars

-----------------------------------------------------------------------------
(* Prepare: the claims *)

\* The last call was a Prepare that got to its fan-out over the VMs.
FanOutReached ==
  /\ last.op = "Prepare"
  /\ \E i \in DOMAIN specs[1].vms :
       Count(last.events, "PrepareVm", specs[1].vms[i].name) > 0

\* The VMs whose PrepareVm raised in the last Prepare.
RaisedInPrepare ==
  {i \in DOMAIN last.vm_ran : last.vm_ran[i].exc # ""}

\* C12: in Prepare's fan-out over the VMs, whichever VMs' PrepareVm raise,
\* PrepareVm is started once for every VM of the spec, every VM whose
\* PrepareVm does not raise goes through its whole preparation sequence, and
\* when some raise Prepare raises one aggregate exception that holds exactly
\* the failures of those VMs.
C12_PrepareAttemptsEveryVm ==
  FanOutReached =>
    /\ \A i \in DOMAIN specs[1].vms :
         /\ Count(last.events, "PrepareVm", specs[1].vms[i].name) = 1
         /\ i \in DOMAIN last.vm_ran
    /\ \A i \in DOMAIN specs[1].vms :
         last.vm_ran[i].exc = "" =>
           last.vm_ran[i].events = PrepareVmSteps(specs[1].vms[i])
    /\ last.failed = RaisedInPrepare
    /\ RaisedInPrepare # {} => last.exc = "ThreadException"

\* A fan-out over two VMs in which the first one's Create raised and the
\* second one was prepared to the end.
C12_Witness ==
  /\ FanOutReached
  /\ Len(specs[1].vms) = 2
  /\ RaisedInPrepare = {1}
  /\ Len(last.vm_ran[1].events) = 1
  /\ last.vm_ran[2].events[Len(last.vm_ran[2].events)].call = "PrepareVMEnvironment"
  /\ last.exc = "ThreadException"

\* The operations of teardown.
TeardownCalls ==
  {"DeleteVm", "Delete", "DeleteScratchDisks", "PackageCleanup",
   "DisallowAllPorts"}

\* The calls the last Prepare made, those of its PrepareVm calls included.
PrepareCalls ==
  {last.events[k].call : k \in DOMAIN last.events}
    \cup UNION {{last.vm_ran[i].events[k].call : k \in DOMAIN last.vm_ran[i].events}
                 : i \in DOMAIN last.vm_ran}

PrepareFailed == last.op = "Prepare" /\ last.exc # ""

\* C17: a failure in Prepare reaches the caller and nothing is rolled back:
\* the failed Prepare has invoked no teardown operation on a VM, a firewall
\* or a network and has left the spec, its deleted flag with it, as it was;
\* and a Delete that follows it under a run stage that permits teardown
\* tears down every VM, firewall and network of the spec.
C17_FailedPrepareNoRollback ==
  /\ last.op = "Prepare" =>
       /\ last.failed # {} => last.exc # ""
       /\ specs[1] = last.before
       /\ PrepareCalls \cap TeardownCalls = {}
  /\ PrepareFailed /\ calls[1].origin = "constructed" /\ AllInvoked(0) =>
       ~specs[1].deleted
  /\ TeardownPerformed /\ last.after_failed_prepare =>
       /\ \A i \in DOMAIN specs[1].vms :
            Count(last.events, "DeleteVm", specs[1].vms[i].name) = 1
       /\ \A i \in DOMAIN specs[1].firewalls :
            Count(last.events, "DisallowAllPorts", specs[1].firewalls[i]) = 1
       /\ \A i \in DOMAIN specs[1].networks :
            Count(last.events, "Delete", specs[1].networks[i]) = 1
       /\ specs[1].deleted

\* A Prepare over two VMs failed, and the Delete that followed tore down
\* both VMs, the firewall and the network.
C17_Witness ==
  /\ TeardownPerformed
  /\ last.after_failed_prepare
  /\ Len(specs[1].vms) = 2
  /\ AllInvoked(1)
  /\ specs[1].deleted

-----------------------------------------------------------------------------
(* DeleteVm: the claims *)

\* The VM the last PrepareVm or DeleteVm call was made on.
LastVm == specs[1].vms[last.vm]

\* The last call was a DeleteVm; it invoked `call' on the VM.
DeleteVmCalled == last.op = "DeleteVm"
DeleteVmInvoked(call) == Count(last.events, call, LastVm.name) = 1

-----------------------------------------------------------------------------
(* A GCE VM from its spec: GceVmSpec.ApplyFlags, GceVirtualMachine.__init__
   and _Create, gce_virtual_machine.py:72-159 *)

NVME == "nvme"
SCSI == "SCSI"
UBUNTU_IMAGE == "ubuntu-14-04"

\* GceVirtualMachine.__init__ on a GceVmSpec, lines 91-109, with the values
\* BaseVirtualMachine.__init__ copies from the spec.
GceVirtualMachineOf(name, vm_spec) ==
  [image |-> StrOr(vm_spec.image, UBUNTU_IMAGE),
   machine_type |-> vm_spec.machine_type,
   zone |-> vm_spec.zone,
   project |-> vm_spec.project,
   boot_metadata |-> <<>>,
   preemptible |-> vm_spec.preemptible]
    @@ GceVirtualMachine(name, vm_spec.num_local_ssds)

\* util.GetDefaultGcloudFlags(resource)
GetDefaultGcloudFlags(vm) ==
  <<"--format", "json", "--quiet">>
    \o (IF StrTruthy(vm.project) THEN <<"--project", vm.project>> ELSE <<>>)
    \o (IF StrTruthy(vm.zone) THEN <<"--zone", vm.zone>> ELSE <<>>)

\* NVME if NVME in self.image else SCSI; the images of the model are named
\* so that the ones with "nvme" in their name are these.
NvmeImages == {"nvme-backports-debian-7"}
SsdInterface(image) == IF image \in NvmeImages THEN NVME ELSE SCSI

\* The create_cmd list _Create builds, lines 129-158.  A scopes flag is kept
\* as the pieces re.split(r'[,; ]', ...) cuts it into.
CreateCommand(vm, flags) ==
  <<flags["gcloud_path"].value, "compute", "instances", "create", vm.name,
    "--disk", "name=" \o vm.name, "boot=yes", "mode=rw",
    "--machine-type", vm.machine_type, "--tags=perfkitbenchmarker",
    "--no-restart-on-failure", "--metadata-from-file", "sshKeys=key-metadata",
    "--metadata", "owner=" \o flags["owner"].value>>
    \o vm.boot_metadata
    \o (IF ~flags["gce_migrate_on_maintenance"].value
          THEN <<"--maintenance-policy", "TERMINATE">> ELSE <<>>)
    \o [i \in 1..(2 * vm.max_local_disks) |->
          IF i % 2 = 1 THEN "--local-ssd"
          ELSE "interface=" \o SsdInterface(vm.image)]
    \o (IF flags["gcloud_scopes"].value # <<>>
          THEN <<"--scopes">> \o flags["gcloud_scopes"].value ELSE <<>>)
    \o (IF vm.preemptible THEN <<"--preemptible">> ELSE <<>>)
    \o GetDefaultGcloudFlags(vm)

GceVmName == "pkb-vm-1"

\* vm_spec.ApplyFlags(FLAGS) on the spec the last call left.
ApplyFlags ==
  /\ last.op \in {"GceVmSpec", "ApplyFlags"}
  /\ last' = [op |-> "ApplyFlags", given |-> last.given,
              before |-> last.vm_spec,
              vm_spec |-> GceVmSpec_ApplyFlags(last.vm_spec, FLAGS)]
  /\ UNCHANGED <<FLAGS, specs, file, calls, machines, vm_pool>>

\* vm = GceVirtualMachine(vm_spec)
NewGceVirtualMachine ==
  /\ last.op \in {"GceVmSpec", "ApplyFlags"}
  /\ machines' = (GceVmName :> GceVirtualMachineOf(GceVmName, last.vm_spec))
  /\ last' = [op |-> "GceVirtualMachine", given |-> last.given,
              vm_spec |-> last.vm_spec]
  /\ UNCHANGED <<FLAGS, specs, file, calls, vm_pool>>

\* vm._Create(): the command list is handed to vm_util.IssueCommand once.
_Create ==
  /\ GceVmName \in DOMAIN machines
  /\ last' = [op |-> "_Create", given |-> last.given,
              vm_spec |-> last.vm_spec,
              issued |-> <<CreateCommand(machines[GceVmName], FLAGS)>>]
  /\ UNCHANGED <<FLAGS, specs, file, calls, machines, vm_pool>>

\* The parameter bags a GceVmSpec is built from.
GceVmSpecBags ==
  {("machine_type" :> "n1-standard-1") @@ ssds @@ preemptible @@ image :
     ssds \in Optional("num_local_ssds", 0..MaxLocalDisks),
     preemptible \in Optional("preemptible", BOOLEAN),
     image \in Optional("image", NvmeImages)}

InitGce ==
  /\ \E ssds \in {NotGiven(0)}
                   \cup {[present |-> TRUE, value |-> n] : n \in 0..MaxLocalDisks},
        preemptible \in {NotGiven(FALSE)}
                          \cup {[present |-> TRUE, value |-> b] : b \in BOOLEAN},
        scopes \in {<<>>, <<"storage-rw", "compute-ro">>},
        migrate \in BOOLEAN :
       FLAGS = ("gce_num_local_ssds" :> ssds)
                 @@ ("gce_preemptible_vms" :> preemptible)
                 @@ ("gcloud_scopes" :> NotGiven(scopes))
                 @@ ("gce_migrate_on_maintenance" :> NotGiven(migrate))
                 @@ ("gcloud_path" :> NotGiven("gcloud"))
                 @@ ("owner" :> NotGiven("perfkit"))
                 @@ [f \in {"machine_type", "image", "project"} |-> NotGiven(NoneStr)]
  /\ \E kwargs \in GceVmSpecBags :
       last = [op |-> "GceVmSpec",
               given |-> Construct(kwargs, GceVmSpec).value[1],
               vm_spec |-> Construct(kwargs, GceVmSpec).value[1]]
  /\ specs = <<>>
  /\ file = <<>>
  /\ calls = <<>>
  /\ machines = <<>>
  /\ vm_pool = <<>>

NextGce == ApplyFlags \/ NewGceVirtualMachine \/ _Create

SpecGce == InitGce /\ [][NextGce]_vars

-----------------------------------------------------------------------------
(* GCE VM specs and the create command: the claims *)

RECURSIVE Occurrences(_, _)
Occurrences(tokens, token) ==
  IF tokens = <<>> THEN 0
  ELSE (IF Head(tokens) = token THEN 1 ELSE 0) + Occurrences(Tail(tokens), token)

\* C14: GceVmSpec.ApplyFlags sets num_local_ssds and preemptible to the flag
\* value exactly when the flag is present and leaves the spec's own value
\* otherwise; _Create of a GCE VM built from a spec issues one command, and
\* '--preemptible' is in it if and only if the spec's preemptible is true.
C14_GcePreemptibleAndLocalSsds ==
  /\ last.op = "ApplyFlags" =>
       /\ last.vm_spec.num_local_ssds =
            IF FLAGS["gce_num_local_ssds"].present
              THEN FLAGS["gce_num_local_ssds"].value
              ELSE last.before.num_local_ssds
       /\ last.vm_spec.preemptible =
            IF FLAGS["gce_preemptible_vms"].present
              THEN FLAGS["gce_preemptible_vms"].value
              ELSE last.before.preemptible
  /\ last.op = "_Create" =>
       /\ Len(last.issued) = 1
       /\ Occurrences(last.issued[1], "--preemptible") > 0
            <=> last.vm_spec.preemptible

\* The flag switched preemptible off on a spec that asked for it, and the
\* VM built from the result was created without '--preemptible'.
C14_Witness ==
  /\ last.op = "_Create"
  /\ last.given.preemptible
  /\ last.given.num_local_ssds # FLAGS["gce_num_local_ssds"].value
  /\ FLAGS["gce_preemptible_vms"] = [present |-> TRUE, value |-> FALSE]
  /\ ~last.vm_spec.preemptible
  /\ ~machines[GceVmName].preemptible
  /\ machines[GceVmName].max_local_disks = FLAGS["gce_num_local_ssds"].value
  /\ FLAGS["gce_num_local_ssds"].present
  /\ Occurrences(last.issued[1], "--preemptible") = 0
  /\ Occurrences(last.issued[1], "--local-ssd") = machines[GceVmName].max_local_disks

-----------------------------------------------------------------------------
(* BaseDiskSpec.ApplyFlags *)

Given(value) == [present |-> TRUE, value |-> value]

\* The states of the four flags BaseDiskSpec.ApplyFlags reads: left alone
\* with a default of None or with a default that is a value, and supplied
\* with a value Python holds false or with one it holds true.
DiskSizeFlags == {NotGiven(None), NotGiven(500), Given(0), Given(100)}
DiskTypeFlags == {NotGiven(NoneStr), NotGiven(STANDARD), Given(disk_LOCAL)}
NumStripedDisksFlags == {NotGiven(None), NotGiven(1), Given(2)}
ScratchDirFlags == {NotGiven(NoneStr), Given(""), Given("/mnt")}

\* Disk specs as a configuration's disk_spec bag builds them.
ConfiguredDiskSpecs ==
  {Construct(kwargs, BaseDiskSpec).value[1] :
     kwargs \in {size @@ type @@ stripes @@ mount :
                   size \in {<<>>, "disk_size" :> 200},
                   type \in {<<>>, "disk_type" :> EPHEMERAL_SSD},
                   stripes \in {<<>>, "num_striped_disks" :> 2},
                   mount \in {<<>>, "mount_point" :> "/scratch"}}}

\* disk_spec.ApplyFlags(flags)
DiskSpecApplyFlags ==
  /\ last.op \in {"BaseDiskSpec", "BaseDiskSpec.ApplyFlags"}
  /\ last' = [op |-> "BaseDiskSpec.ApplyFlags",
              given |-> last.given,
              before |-> last.disk_spec,
              disk_spec |-> BaseDiskSpec_ApplyFlags(last.disk_spec, FLAGS)]
  /\ UNCHANGED <<FLAGS, specs, file, calls, machines, vm_pool>>

InitDiskFlags ==
  /\ \E size \in DiskSizeFlags, type \in DiskTypeFlags,
        stripes \in NumStripedDisksFlags, dir \in ScratchDirFlags :
       FLAGS = ("disk_size" :> size) @@ ("disk_type" :> type)
                 @@ ("num_striped_disks" :> stripes) @@ (SCRATCH_DIR :> dir)
  /\ \E disk_spec \in ConfiguredDiskSpecs :
       last = [op |-> "BaseDiskSpec", given |-> disk_spec, disk_spec |-> disk_spec]
  /\ specs = <<>>
  /\ file = <<>>
  /\ calls = <<>>
  /\ machines = <<>>
  /\ vm_pool = <<>>

NextDiskFlags == DiskSpecApplyFlags

SpecDiskFlags == InitDiskFlags /\ [][NextDiskFlags]_vars

-----------------------------------------------------------------------------
(* BaseDiskSpec.ApplyFlags: the claims *)

\* The flag each overlaid field of a disk spec is read from.
DiskSpecFlag ==
  ("disk_size" :> "disk_size") @@ ("disk_type" :> "disk_type")
    @@ ("num_striped_disks" :> "num_striped_disks")
    @@ ("mount_point" :> SCRATCH_DIR)

DiskFlagsApplied == last.op = "BaseDiskSpec.ApplyFlags"

\* What the code does hold to: a field is replaced by its flag's value when
\* that value is one Python holds true, supplied or not, and kept otherwise.
DiskFlagTruthinessContract ==
  DiskFlagsApplied =>
    /\ last.disk_spec.disk_size =
         IntOr(FLAGS["disk_size"].value, last.before.disk_size)
    /\ last.disk_spec.num_striped_disks =
         IntOr(FLAGS["num_striped_disks"].value, last.before.num_striped_disks)
    /\ last.disk_spec.disk_type =
         StrOr(FLAGS["disk_type"].value, last.before.disk_type)
    /\ last.disk_spec.mount_point =
         StrOr(FLAGS[SCRATCH_DIR].value, last.before.mount_point)

\* C15: BaseDiskSpec.ApplyFlags replaces disk_size, disk_type,
\* num_striped_disks or mount_point only when the flag of that field was
\* explicitly supplied; a flag that was not supplied, whatever its default,
\* leaves a value the disk spec was configured with as it was.
C15_DiskFlagReplacesOnlyWhenSupplied ==
  DiskFlagsApplied =>
    \A field \in DOMAIN DiskSpecFlag :
      /\ last.disk_spec[field] # last.before[field] =>
           last.disk_spec[field] = FLAGS[DiskSpecFlag[field]].value
      /\ ~FLAGS[DiskSpecFlag[field]].present
           /\ last.before[field] # BaseDiskSpec[field] =>
             last.disk_spec[field] = last.before[field]

-----------------------------------------------------------------------------
(* PickleSpec and the merged-flags cache *)

\* Configurations with and without flags of their own.
PickledConfigs ==
  {VM_GROUPS :> <<>>,
   (VM_GROUPS :> <<>>) @@ (CONFIG_FLAGS :> (OS_TYPE :> WINDOWS))}

InitPickle ==
  /\ \E stage \in RunStages, os \in FlagStates(OS_TYPE, {RHEL}) :
       FLAGS = (CLOUD :> NotGiven(FlagDefault[CLOUD]))
                 @@ (OS_TYPE :> os)
                 @@ (RUN_STAGE :> Given(stage))
  /\ \E config \in PickledConfigs, kinds \in GroupVmKinds(1) :
       specs = <<[Provisioned(kinds, 1, 1) EXCEPT !.config = config]>>
  /\ file = <<>>
  /\ calls = <<NoCalls(specs[1], "constructed", FALSE)>>
  /\ machines = <<>>
  /\ vm_pool = <<>>
  /\ last = [op |-> "__init__"]

NextPickle ==
  \/ ReadFLAGS
  \/ PickleSpec
  \/ GetSpecFromFile
  \/ \E stage \in RunStages : NewInvocation(stage)

SpecPickle == InitPickle /\ [][NextPickle]_vars

-----------------------------------------------------------------------------
(* PickleSpec and the merged-flags cache: the claims *)

PickleSpecReturned == last.op = "PickleSpec" /\ last.exc = ""

\* C16: PickleSpec takes the merged-flags cache off the spec before writing
\* and puts it back after: the image in the file never holds the cache, a
\* resumed spec starts without it and computes it from the flags of its own
\* invocation on first use, and when PickleSpec has returned the spec in
\* memory, cache included, is what it was before the call.
C16_PickleDetachesFlagsCache ==
  /\ file # <<>> => file[1]._flags = <<>>
  /\ PickleSpecReturned =>
       /\ specs[1] = last.before
       /\ file[1] = [last.before EXCEPT !._flags = <<>>]
  /\ last.op = "GetSpecFromFile" /\ last.exc = "" => specs[1]._flags = <<>>
  /\ last.op = "FLAGS" /\ last.before._flags = <<>> =>
       specs[1]._flags = <<GetMergedFlags(specs[1].config, FLAGS)>>

\* PickleSpec has returned on a spec whose cache was filled: the cache is
\* still there and the image has none.
C16_Witness ==
  /\ PickleSpecReturned
  /\ last.before._flags # <<>>
  /\ specs[1]._flags = last.before._flags
  /\ specs[1]._flags[1] # FLAGS
  /\ file[1]._flags = <<>>

-----------------------------------------------------------------------------
(* Local disk types: the claims *)

\* The disk types that ask for a disk local to the VM: the legacy name and
\* the types DiskTypeIsLocal accepts.
RequestsLocalDisk(disk_type) ==
  disk_type = disk_LOCAL \/ DiskTypeIsLocal(disk_type)

\* C18: a disk spec of a local type, the legacy 'local' or one for which
\* DiskTypeIsLocal holds, is handled as local: the disks CreateScratchDisk
\* allocates for it are numbered from the local counter, within
\* 1..max_local_disks, and a PrepareVm that runs to its end has called
\* SetupLocalDisks if and only if a disk spec of the VM has such a type.
C18_LocalTypesTreatedAsLocal ==
  /\ last.op = "CreateScratchDisk" =>
       \A v \in DOMAIN machines :
         LET disks == Members(machines[v].scratch_disks)
         IN  \A k \in DOMAIN disks :
               RequestsLocalDisk(disks[k].disk_type) =>
                 disks[k].disk_number \in 1..machines[v].max_local_disks
  /\ last.op = "PrepareVm" /\ last.exc = "" =>
       ((\E k \in DOMAIN last.events : last.events[k].call = "SetupLocalDisks")
          <=> \E k \in DOMAIN LastVm.disk_specs :
                RequestsLocalDisk(LastVm.disk_specs[k].disk_type))

-----------------------------------------------------------------------------
(* Disk specs of the VMs ConstructVirtualMachines creates: the claims *)

\* The disk count of a group, and the mount point of its disk spec once the
\* flags have been applied to it.
GroupDiskCount(self, group_name) ==
  LET group_spec == self.config[VM_GROUPS][group_name]
  IN  IF DISK_COUNT \in DOMAIN group_spec
        THEN group_spec[DISK_COUNT] ELSE DEFAULT_COUNT

GroupMountPoint(self, group_name) ==
  LET bag == self.config[VM_GROUPS][group_name][DISK_SPEC][
               _GetCloudForGroup(self, group_name)]
  IN  StrOr(FLAGS[SCRATCH_DIR].value,
            IF "mount_point" \in DOMAIN bag THEN bag["mount_point"] ELSE NoneStr)

IndexSuffix == <<"0", "1", "2">>

\* The VMs of a group that the loop over the remaining VMs created, the
\* machines of the static pool left out.
CreatedVms(self, group_name) ==
  SelectSeq(self.vm_groups[group_name], LAMBDA vm : ~vm.is_static)

\* C19: in a group with a disk spec, each VM the call created has
\* disk_count disk specs; with disk_count above 1 and a mount point m their
\* mount points are m0, m1, ... in order, the same on every VM of the group
\* whatever was built before it, and with disk_count 1 or no mount point the
\* mount point is the disk spec's own.
C19_MountPointIndexPerVm ==
  ConstructCalled =>
    \A g \in DOMAIN specs[1].vm_groups :
      DISK_SPEC \in DOMAIN specs[1].config[VM_GROUPS][g] =>
        LET k == GroupDiskCount(specs[1], g)
            m == GroupMountPoint(specs[1], g)
            vms == CreatedVms(specs[1], g)
        IN  \A j \in DOMAIN vms :
              /\ Len(vms[j].disk_specs) = k
              /\ \A i \in 1..k :
                   vms[j].disk_specs[i].mount_point =
                     IF k > 1 /\ StrTruthy(m) THEN m \o IndexSuffix[i] ELSE m

\* A group of two created VMs with two disks each: both have the mount
\* points /scratch0 and /scratch1.
C19_Witness ==
  /\ ConstructCalled
  /\ \E g \in DOMAIN specs[1].vm_groups :
       /\ DISK_SPEC \in DOMAIN specs[1].config[VM_GROUPS][g]
       /\ GroupDiskCount(specs[1], g) = 2
       /\ Len(CreatedVms(specs[1], g)) = 2
       /\ \A j \in 1..2 :
            /\ CreatedVms(specs[1], g)[j].disk_specs[1].mount_point = "/scratch0"
            /\ CreatedVms(specs[1], g)[j].disk_specs[2].mount_point = "/scratch1"

-----------------------------------------------------------------------------
(* The VM sequence of a group: the claims *)

ConstructReturned == ConstructCalled /\ last.exc = ""

Min(a, b) == IF a < b THEN a ELSE b

\* The static VM descriptors a group's configuration lists.
GroupDescriptors(self, group_name) ==
  LET group_spec == self.config[VM_GROUPS][group_name]
  IN  IF STATIC_VMS \in DOMAIN group_spec THEN group_spec[STATIC_VMS] ELSE <<>>

\* The VM count a group asks for: 1 without vm_count, the num_vms flag for
\* a null vm_count.
RequestedVmCount(self, group_name) ==
  LET group_spec == self.config[VM_GROUPS][group_name]
  IN  IF VM_COUNT \notin DOMAIN group_spec THEN 1
      ELSE IF group_spec[VM_COUNT] = None THEN FLAGS[NUM_VMS].value
      ELSE group_spec[VM_COUNT]

\* The i-th VM of a group is the static VM of the i-th descriptor.
IsStaticVmOf(vm, descriptor) ==
  /\ vm.is_static
  /\ vm.vm_spec = (descriptor @@ StaticVmSpec)

\* The VM was synthesized for the group from its VM-spec template.
IsSynthesizedFor(vm, self, group_name) ==
  /\ ~vm.is_static
  /\ vm.cloud = _GetCloudForGroup(self, group_name)
  /\ vm.os_type = _GetOsTypeForGroup(self, group_name)

\* The sequence of a group is n VMs: the static VMs of the first min(s, n)
\* descriptors in their order, then synthesized VMs.
GroupSequenceAsClaimed(self, group_name) ==
  LET n == RequestedVmCount(self, group_name)
      descriptors == GroupDescriptors(self, group_name)
      first == Min(Len(descriptors), n)
      vms == self.vm_groups[group_name]
  IN  /\ Len(vms) = n
      /\ \A i \in 1..first : IsStaticVmOf(vms[i], descriptors[i])
      /\ \A i \in (first + 1)..n : IsSynthesizedFor(vms[i], self, group_name)

\* What does hold: the counts, the static VMs first and in order, and the flat
\* list, whatever the static VM pool holds; and with an empty pool the rest
\* of each group is synthesized.
GroupSequenceContract ==
  ConstructReturned =>
    /\ DOMAIN specs[1].vm_groups = DOMAIN specs[1].config[VM_GROUPS]
    /\ specs[1].vms = GroupedVms(specs[1], last.order)
    /\ \A g \in DOMAIN specs[1].vm_groups :
         LET n == RequestedVmCount(specs[1], g)
             descriptors == GroupDescriptors(specs[1], g)
             vms == specs[1].vm_groups[g]
         IN  /\ Len(vms) = n
             /\ \A i \in 1..Min(Len(descriptors), n) :
                  IsStaticVmOf(vms[i], descriptors[i])
             /\ last.pool = <<>> => GroupSequenceAsClaimed(specs[1], g)

\* C20: after ConstructVirtualMachines the sequence of a group with VM count
\* n and s static VM descriptors holds n VMs, the static VMs of the first
\* min(s, n) descriptors in descriptor order and then n - min(s, n)
\* synthesized VMs (a missing vm_count is 1, a null one the num_vms flag),
\* and the spec's vms list is the group sequences one after the other.
C20_GroupSequence ==
  ConstructReturned =>
    /\ \A g \in DOMAIN specs[1].config[VM_GROUPS] :
         g \in DOMAIN specs[1].vm_groups /\ GroupSequenceAsClaimed(specs[1], g)
    /\ specs[1].vms = GroupedVms(specs[1], last.order)

-----------------------------------------------------------------------------
(* PrepareVm call by call, on the threads of the fan-out *)

\* The threads RunThreaded starts for Prepare's fan-out, one per VM.
ThreadVms == {1, 2}

\* The thread of VM i makes the next call of its PrepareVm, which raises or
\* returns; a thread whose call raised has left PrepareVm and makes no call
\* any more.  machines[i] holds what the thread has called so far.
PrepareVmStep(i, raises) ==
  /\ i \in DOMAIN machines
  /\ machines[i].exc = ""
  /\ Len(machines[i].events) < Len(PrepareVmSteps(specs[1].vms[i]))
  /\ machines' =
       [machines EXCEPT
          ![i] = [events |-> Append(@.events,
                               PrepareVmSteps(specs[1].vms[i])[Len(@.events) + 1]),
                  exc |-> IF raises THEN "Exception" ELSE ""]]
  /\ last' = [op |-> "PrepareVm", thread |-> i, raised |-> raises]
  /\ UNCHANGED <<FLAGS, specs, file, calls, vm_pool>>

InitThreads ==
  /\ FLAGS = (CLOUD :> NotGiven(FlagDefault[CLOUD]))
               @@ (OS_TYPE :> NotGiven(FlagDefault[OS_TYPE]))
               @@ (RUN_STAGE :> NotGiven("all"))
  /\ \E disk_specs \in [ThreadVms -> PreparedDiskSpecs],
        ports \in [ThreadVms -> RemoteAccessPorts] :
       specs = <<[BenchmarkSpec(VM_GROUPS :> <<>>, "bench", "uid") EXCEPT
                    !.vms = [i \in ThreadVms |->
                               [name |-> <<"vm", i>>, is_static |-> FALSE,
                                install_packages |-> TRUE,
                                disk_specs |-> disk_specs[i],
                                remote_access_ports |-> ports[i]]]]>>
  /\ machines = [i \in ThreadVms |-> [events |-> <<>>, exc |-> ""]]
  /\ file = <<>>
  /\ calls = <<>>
  /\ vm_pool = <<>>
  /\ last = [op |-> "RunThreaded"]

NextThreads == \E i \in ThreadVms, raises \in BOOLEAN : PrepareVmStep(i, raises)

SpecThreads == InitThreads /\ [][NextThreads]_vars

-----------------------------------------------------------------------------
(* PrepareVm call by call: the claims *)

\* The place of a call in the order of PrepareVm.
PrepareRank ==
  ("Create" :> 1) @@ ("AllowPort" :> 2) @@ ("AddMetadata" :> 3)
    @@ ("WaitForBootCompletion" :> 4) @@ ("OnStartup" :> 5)
    @@ ("SetupLocalDisks" :> 6) @@ ("CreateScratchDisk" :> 7)
    @@ ("PrepareVMEnvironment" :> 8)

\* The arguments of the calls of `call' among `events', in order.
ArgsOf(events, call) ==
  LET made == SelectSeq(events, LAMBDA e : e.call = call)
  IN  [k \in DOMAIN made |-> made[k].arg]

IsPrefix(s, t) == Len(s) <= Len(t) /\ s = SubSeq(t, 1, Len(s))

\* C21: whatever the other threads do, the calls PrepareVm has made on a VM
\* are in the order Create, AllowPort per remote-access port, AddMetadata,
\* WaitForBootCompletion, OnStartup, SetupLocalDisks (if called),
\* CreateScratchDisk per disk spec in order, PrepareVMEnvironment, none
\* missing before a later one and none repeated; PrepareVMEnvironment comes
\* only after every CreateScratchDisk has returned, and the call that raised
\* is the last one the VM got.
C21_PrepareVmOrder ==
  /\ [](\A i \in DOMAIN machines :
       LET events == machines[i].events
           vm == specs[1].vms[i]
           disks == [k \in DOMAIN vm.disk_specs |-> k]
       IN  /\ \A j, k \in DOMAIN events :
                j < k => PrepareRank[events[j].call] <= PrepareRank[events[k].call]
           /\ \A k \in DOMAIN events :
                \A r \in 1..(PrepareRank[events[k].call] - 1) :
                  r \in {1, 3, 4, 5} => \E j \in 1..(k - 1) : PrepareRank[events[j].call] = r
           /\ \A c \in {"Create", "AddMetadata", "WaitForBootCompletion", "OnStartup",
                        "SetupLocalDisks", "PrepareVMEnvironment"} :
                Len(ArgsOf(events, c)) <= 1
           /\ IsPrefix(ArgsOf(events, "AllowPort"), vm.remote_access_ports)
           /\ IsPrefix(ArgsOf(events, "CreateScratchDisk"), disks)
           /\ (\E k \in DOMAIN events : PrepareRank[events[k].call] > 2) =>
                ArgsOf(events, "AllowPort") = vm.remote_access_ports
           /\ ArgsOf(events, "PrepareVMEnvironment") # <<>> =>
                /\ ArgsOf(events, "CreateScratchDisk") = disks
                /\ events[Len(events)].call = "PrepareVMEnvironment")
  /\ [][\A i \in DOMAIN machines :
          machines[i].exc # "" => machines'[i] = machines[i]]_vars

\* One thread has run PrepareVm to its end over two ports and two scratch
\* disks while the other thread's CreateScratchDisk raised, after which that
\* VM got no PrepareVMEnvironment.
C21_Witness ==
  /\ machines[1].exc = ""
  /\ Len(machines[1].events) = Len(specs[1].vms[1].remote_access_ports) + 8
  /\ Len(specs[1].vms[1].remote_access_ports) = 2
  /\ machines[1].events[Len(machines[1].events)].call = "PrepareVMEnvironment"
  /\ machines[2].exc # ""
  /\ machines[2].events[Len(machines[2].events)].call = "CreateScratchDisk"
  /\ last.thread = 1

-----------------------------------------------------------------------------
(* The stages of Prepare: the claims *)

PrepareCalled == last.op = "Prepare"

\* The positions in the last call's events at which `call' was invoked.
Positions(call) == {k \in DOMAIN last.events : last.events[k].call = call}

\* The calls of the last Prepare that operate on a VM.
VmOperations ==
  Positions("PrepareVm") \cup Positions("GenerateSSHConfig")

\* C22: Prepare has invoked Create on every network of the spec before the
\* first PrepareVm starts; when the network fan-out raised, Prepare raises
\* and no VM was created or prepared; and with no VMs Prepare ends after the
\* network stage with no VM operation invoked.
C22_NetworksBeforeVms ==
  PrepareCalled =>
    /\ \A i \in DOMAIN specs[1].networks :
         Count(last.events, "Create", specs[1].networks[i]) = 1
    /\ \A n \in Positions("Create"), v \in VmOperations : n < v
    /\ last.networks_failed # {} =>
         /\ last.exc # ""
         /\ VmOperations = {}
         /\ DOMAIN last.vm_ran = {}
    /\ specs[1].vms = <<>> =>
         /\ VmOperations = {}
         /\ DOMAIN last.vm_ran = {}
         /\ Len(last.events) = Len(specs[1].networks)
    /\ last.networks_failed = {} /\ specs[1].vms # <<>> =>
         \A i \in DOMAIN specs[1].vms :
           Count(last.events, "PrepareVm", specs[1].vms[i].name) = 1

\* One of two networks failed to be created before two VMs: both networks
\* were attempted and no VM was touched.
C22_Witness ==
  /\ PrepareCalled
  /\ Len(specs[1].networks) = 2
  /\ Len(specs[1].vms) = 2
  /\ last.networks_failed = {1}
  /\ Len(last.events) = 2
  /\ last.exc = "ThreadException"

-----------------------------------------------------------------------------
(* StripedDisk, disk.py:192-222 *)

\* What each operation leaves a member disk in when it returns.
MemberAfter(call, member) ==
  CASE call = "Create" -> [member EXCEPT !.created = TRUE]
    [] call = "Delete" -> [member EXCEPT !.created = FALSE]
    [] call = "Attach" -> [member EXCEPT !.attached = TRUE]
    [] call = "Detach" -> [member EXCEPT !.attached = FALSE]

StripedDiskCalls == {"Create", "Delete", "Attach", "Detach"}

StripedFanOut_PastFailure(call, disks, fail) ==
  [events |-> [k \in DOMAIN disks |-> [call |-> call, on |-> disks[k].name]],
   exc |-> IF fail \in DOMAIN disks THEN "Exception" ELSE "",
   disks |-> [k \in DOMAIN disks |->
                IF k = fail THEN disks[k] ELSE MemberAfter(call, disks[k])]]

\* `for disk in self.disks: disk.<call>(...)' when the call on the fail-th
\* member raises (none when fail is 0): the calls made, the exception that
\* left the loop and the members afterwards.  Create and Delete of the
\* striped disk get to _Create and _Delete through BaseResource.
StripedFanOut(call, disks, fail) ==
  LET reached == IF fail \in DOMAIN disks THEN fail ELSE Len(disks)
  IN  [events |-> [k \in 1..reached |-> [call |-> call, on |-> disks[k].name]],
       exc |-> IF fail \in DOMAIN disks THEN "Exception" ELSE "",
       disks |-> [k \in DOMAIN disks |->
                    IF k < reached \/ (k = reached /\ fail \notin DOMAIN disks)
                      THEN MemberAfter(call, disks[k]) ELSE disks[k]]]

MaxMembers == 3

\* One of Create, Delete, Attach, Detach on the striped disk.
StripedDiskCall(call, fail) ==
  /\ machines # <<>>
  /\ fail \in 0..Len(machines)
  /\ LET ran == StripedFanOut(call, machines, fail)
     IN  /\ machines' = ran.disks
         /\ last' = [op |-> call, before |-> machines, events |-> ran.events,
                     exc |-> ran.exc, fail |-> fail]
  /\ UNCHANGED <<FLAGS, specs, file, calls, vm_pool>>

\* A striped disk assembled from one to MaxMembers disks, none created yet.
InitStriped ==
  /\ \E n \in 1..MaxMembers :
       machines = [k \in 1..n |-> [name |-> <<"disk", k>>, created |-> FALSE,
                                   attached |-> FALSE]]
  /\ FLAGS = <<>>
  /\ specs = <<>>
  /\ file = <<>>
  /\ calls = <<>>
  /\ vm_pool = <<>>
  /\ last = [op |-> "StripedDisk"]

NextStriped ==
  \E call \in StripedDiskCalls, fail \in 0..MaxMembers : StripedDiskCall(call, fail)

SpecStriped == InitStriped /\ [][NextStriped]_vars

-----------------------------------------------------------------------------
(* StripedDisk: the claims *)

StripedDiskCalled == last.op \in StripedDiskCalls

\* C23: Create, Delete, Attach and Detach of a striped disk call the same
\* operation on the member disks in the order of self.disks, on every member
\* when none raises; when the call on a member raises, the exception leaves
\* the operation, no later member is called, and the members already called
\* are left as the operation put them, none called again.
C23_StripedFanOut ==
  StripedDiskCalled =>
    LET n == Len(last.before)
        reached == Len(last.events)
    IN  /\ \A k \in 1..reached :
             last.events[k] = [call |-> last.op, on |-> last.before[k].name]
        /\ IF last.exc = ""
             THEN /\ reached = n
                  /\ \A k \in 1..n : machines[k] = MemberAfter(last.op, last.before[k])
             ELSE /\ reached = last.fail
                  /\ \A k \in 1..(reached - 1) :
                       machines[k] = MemberAfter(last.op, last.before[k])
                  /\ \A k \in reached..n : machines[k] = last.before[k]
        /\ last.exc # "" <=> last.fail \in 1..n

\* Attach raised on the second of three created members: the first is
\* attached, the second and third are not, and the third was not called.
C23_Witness ==
  /\ last.op = "Attach"
  /\ Len(machines) = 3
  /\ last.fail = 2
  /\ Len(last.events) = 2
  /\ machines[1].attached /\ ~machines[2].attached /\ ~machines[3].attached
  /\ \A k \in 1..3 : machines[k].created

-----------------------------------------------------------------------------
(* The stages of Delete: the claims *)

\* C24: in a Delete that performs teardown, DeleteVm has been started for
\* every VM and the VM fan-out has returned before the first
\* DisallowAllPorts; DisallowAllPorts has been invoked on every firewall
\* before the first network Delete; deleted is true afterwards and every
\* network's Delete was invoked by then; with no VMs no VM operation is
\* invoked and every firewall and network is still attempted.
C24_DeleteStagesOrdered ==
  TeardownPerformed =>
    LET vm_stage == Positions("DeleteVm")
        firewall_stage == Positions("DisallowAllPorts")
        network_stage == Positions("Delete")
    IN  /\ vm_stage \cup firewall_stage \cup network_stage = DOMAIN last.events
        /\ \A v \in vm_stage, f \in firewall_stage : v < f
        /\ \A v \in vm_stage, n \in network_stage : v < n
        /\ \A f \in firewall_stage, n \in network_stage : f < n
        /\ \A i \in DOMAIN specs[1].vms :
             Count(last.events, "DeleteVm", specs[1].vms[i].name) = 1
        /\ \A i \in DOMAIN specs[1].firewalls :
             Count(last.events, "DisallowAllPorts", specs[1].firewalls[i]) = 1
        /\ specs[1].deleted
        /\ \A i \in DOMAIN specs[1].networks :
             Count(last.events, "Delete", specs[1].networks[i]) = 1
        /\ specs[1].vms = <<>> =>
             /\ vm_stage = {}
             /\ Cardinality(firewall_stage) = Len(specs[1].firewalls)
             /\ Cardinality(network_stage) = Len(specs[1].networks)

\* A teardown of two VMs, two firewalls and two networks in which the VM
\* fan-out raised: six operations, the VMs first and the networks last.
C24_Witness ==
  /\ TeardownPerformed
  /\ Len(specs[1].vms) = 2 /\ Len(specs[1].firewalls) = 2
  /\ Len(specs[1].networks) = 2
  /\ last.logged[LOG_VMS] = 1
  /\ Len(last.events) = 6
  /\ last.events[1].call = "DeleteVm" /\ last.events[3].call = "DisallowAllPorts"
  /\ last.events[6].call = "Delete"
  /\ specs[1].deleted

\* A teardown of a spec without VMs that closed its firewalls and deleted
\* its networks.
C24_WitnessNoVms ==
  /\ TeardownPerformed
  /\ specs[1].vms = <<>>
  /\ Len(last.events) = 4

-----------------------------------------------------------------------------
(* The deleted flag over the life of a spec object *)

\* Configurations of one group of zero to MaxPreparedVms VMs, whose GCP
\* parameters the VM spec accepts or not.
LifecycleConfigs ==
  {VM_GROUPS :> ("default" :> ((VM_COUNT :> n) @@ (VM_SPEC :> vm_spec))) :
     n \in 0..MaxPreparedVms,
     vm_spec \in {(GCP :> GcpVmBags.good) @@ (ALICLOUD :> AliVmBags.good),
                  (GCP :> GcpVmBags.bad) @@ (ALICLOUD :> AliVmBags.good)}}

\* The spec object right after BenchmarkSpec.__init__, under any run stage.
InitLifecycle ==
  /\ \E stage \in RunStages :
       FLAGS = [ConstructFlags(NotGiven(1)) EXCEPT
                  ![RUN_STAGE] = [present |-> TRUE, value |-> stage]]
  /\ \E config \in LifecycleConfigs :
       specs = <<BenchmarkSpec(config, "bench", "uid")>>
  /\ file = <<>>
  /\ calls = <<NoCalls(specs[1], "constructed", FALSE)>>
  /\ machines = <<>>
  /\ vm_pool = <<>>
  /\ last = [op |-> "__init__"]

NextLifecycle ==
  \/ ConstructVirtualMachines
  \/ Prepare
  \/ Delete
  \/ PickleSpec
  \/ GetSpecFromFile

SpecLifecycle == InitLifecycle /\ [][NextLifecycle]_vars

-----------------------------------------------------------------------------
(* The deleted flag: the claims *)

\* The step is a call made on the spec object the process already holds.
SameObject == specs # <<>> /\ last'.op # "GetSpecFromFile"

\* C25: a spec object's deleted flag is false after __init__; no call of
\* ConstructVirtualMachines, Prepare, Delete or PickleSpec on the object
\* turns it from true to false; it changes only in a Delete that found it
\* false under a run stage that permits teardown and got to its last
\* statement; a Delete that finds it true does no teardown work; and a step
\* that leaves the process with deleted false after it was true is a
\* successful GetSpecFromFile, whose spec always has deleted false.
C25_DeletedFlagMonotonic ==
  /\ [](last.op = "__init__" => ~specs[1].deleted)
  /\ [][/\ SameObject /\ specs[1].deleted => specs'[1].deleted
        /\ SameObject /\ specs'[1].deleted # specs[1].deleted =>
             /\ last'.op = "Delete" /\ ~last'.was_deleted
             /\ StagePermitsTeardown
             /\ last'.exc = ""
             /\ specs'[1].deleted
        /\ SameObject /\ last'.op = "Delete" /\ specs[1].deleted =>
             /\ last'.was_deleted
             /\ last'.events = <<>>
             /\ calls' = calls
        /\ specs # <<>> /\ specs[1].deleted /\ ~specs'[1].deleted =>
             last'.op = "GetSpecFromFile" /\ last'.exc = ""
        /\ last'.op = "GetSpecFromFile" /\ last'.exc = "" => ~specs'[1].deleted
       ]_vars

\* ConstructVirtualMachines built two VMs, Delete tore them down, PickleSpec
\* wrote the deleted spec, GetSpecFromFile reset the flag and a Prepare on
\* the resumed spec left it false.
C25_Witness ==
  /\ last.op = "Prepare"
  /\ calls[1].origin = "resumed" /\ calls[1].pickled_deleted
  /\ Len(specs[1].vms) = 2
  /\ ~specs[1].deleted

\* Prepare and PickleSpec after the Delete that set the flag left it set.
C25_WitnessStaysSet ==
  /\ last.op \in {"Prepare", "PickleSpec"}
  /\ calls[1].origin = "constructed"
  /\ Len(specs[1].vms) = 2
  /\ \A i \in DOMAIN specs[1].vms : calls[1].DeleteVm[i] = 1
  /\ specs[1].deleted

-----------------------------------------------------------------------------
(* A failed CreateScratchDisk: the claims *)

\* The last call was a CreateScratchDisk that raised the allocation error.
DiskCallFailed ==
  last.op = "CreateScratchDisk" /\ last.exc = NOT_ENOUGH_LOCAL_DISKS

\* What a failed call does leave alone: the remote counter, the scratch-disk
\* inventory and the numbers of the disks in it.
FailedCallKeepsRemoteAndInventory ==
  DiskCallFailed =>
    /\ machines[last.vm].remote_disk_counter = last.before.remote_disk_counter
    /\ machines[last.vm].scratch_disks = last.before.scratch_disks
    /\ machines[last.vm].max_local_disks = last.before.max_local_disks

\* C26: no VM's local_disk_counter exceeds its max_local_disks, and a
\* CreateScratchDisk call that raised the local-disk allocation error leaves
\* the VM's local_disk_counter, remote_disk_counter and scratch disks as they
\* were before the call.
C26_FailedAllocationLeavesState ==
  /\ \A v \in DOMAIN machines :
       machines[v].local_disk_counter <= machines[v].max_local_disks
  /\ DiskCallFailed =>
       /\ machines[last.vm].local_disk_counter = last.before.local_disk_counter
       /\ machines[last.vm].remote_disk_counter = last.before.remote_disk_counter
       /\ machines[last.vm].scratch_disks = last.before.scratch_disks

-----------------------------------------------------------------------------
(* Pickling of locks, benchmark_spec.py:37-49 *)

\* threading.Lock(): the id-th lock made by the process, unlocked.
Lock(id) == [id |-> id, locked |-> FALSE]

\* lock.acquire(False): takes the lock when it is free and tells whether it
\* did.
AcquireNonBlocking(lock) ==
  [lock |-> [lock EXCEPT !.locked = TRUE], acquired |-> ~lock.locked]

\* PickleLock: what pickle writes for a lock, the function to rebuild it with
\* and its arguments; the lock is only asked for its state.
PickleLock(lock) == [rebuild |-> "UnPickleLock", args |-> <<lock.locked>>]

UnPickleLock_Unlocked(locked, id) == [lock |-> Lock(id), exc |-> ""]

\* UnPickleLock(locked): a new lock, acquired when `locked' is true.
UnPickleLock(locked, id) ==
  LET lock == Lock(id)
      taken == AcquireNonBlocking(lock)
  IN  IF locked
        THEN IF ~taken.acquired
               THEN [lock |-> taken.lock, exc |-> "UnpicklingError"]
               ELSE [lock |-> taken.lock, exc |-> ""]
        ELSE [lock |-> lock, exc |-> ""]

\* The locks of a spec object, lines 115-116.
SpecLocks == {"networks_lock", "firewalls_lock"}

MaxLocksMade == 6

\* A thread takes a free lock of the spec (with self.networks_lock: ...).
AcquireLock(name) ==
  /\ ~machines[name].locked
  /\ machines' = [machines EXCEPT ![name] = AcquireNonBlocking(@).lock]
  /\ last' = [op |-> "acquire", lock |-> name]
  /\ UNCHANGED <<FLAGS, specs, file, calls, vm_pool>>

\* The thread holding a lock of the spec releases it.
ReleaseLock(name) ==
  /\ machines[name].locked
  /\ machines' = [machines EXCEPT ![name].locked = FALSE]
  /\ last' = [op |-> "release", lock |-> name]
  /\ UNCHANGED <<FLAGS, specs, file, calls, vm_pool>>

\* pickle.dump of the spec, for its locks: copy_reg has PickleLock called on
\* each lock, and the file holds what it returned.
DumpLocks ==
  /\ file' = <<[name \in SpecLocks |-> PickleLock(machines[name])]>>
  /\ last' = [op |-> "dump"]
  /\ UNCHANGED <<FLAGS, specs, machines, calls, vm_pool>>

\* pickle.load of the spec, for its locks: each lock is rebuilt by calling
\* the function the file names on the arguments it holds.
LoadLocks ==
  /\ file # <<>>
  /\ calls[1] + Cardinality(SpecLocks) <= MaxLocksMade
  /\ LET built == [name \in SpecLocks |->
                     UnPickleLock(file[1][name].args[1],
                                  calls[1] + (IF name = "networks_lock" THEN 1 ELSE 2))]
     IN  /\ specs' = <<[name \in SpecLocks |-> built[name].lock]>>
         /\ last' = [op |-> "load",
                     exc |-> IF \E name \in SpecLocks : built[name].exc # ""
                               THEN "UnpicklingError" ELSE ""]
  /\ calls' = <<calls[1] + Cardinality(SpecLocks)>>
  /\ UNCHANGED <<FLAGS, file, machines, vm_pool>>

\* A spec object right after __init__ made its two locks.
InitLock ==
  /\ machines = [name \in SpecLocks |->
                   Lock(IF name = "networks_lock" THEN 1 ELSE 2)]
  /\ calls = <<2>>
  /\ specs = <<>>
  /\ file = <<>>
  /\ FLAGS = <<>>
  /\ vm_pool = <<>>
  /\ last = [op |-> "__init__"]

NextLock ==
  \/ \E name \in SpecLocks : AcquireLock(name)
  \/ \E name \in SpecLocks : ReleaseLock(name)
  \/ DumpLocks
  \/ LoadLocks

SpecLock == InitLock /\ [][NextLock]_vars

-----------------------------------------------------------------------------
(* Pickling of locks: the claims *)

\* C27: pickling a lock records the lock's state at that moment and leaves
\* the lock as it was; unpickling raises nothing and builds, for each lock
\* in the file, a new lock (none of the locks the process held before) that
\* is locked exactly when the file says the original was, whatever the
\* originals have done since; this holds for locked and for unlocked locks.
C27_LockRoundTrip ==
  /\ [][last'.op = "dump" =>
          /\ machines' = machines
          /\ \A name \in SpecLocks :
               file'[1][name].args = <<machines[name].locked>>]_vars
  /\ [][last'.op = "load" =>
          /\ last'.exc = ""
          /\ machines' = machines
          /\ file' = file
          /\ \A name \in SpecLocks :
               /\ specs'[1][name].locked = file[1][name].args[1]
               /\ \A other \in SpecLocks : specs'[1][name].id # machines[other].id
               /\ specs # <<>> =>
                    \A other \in SpecLocks : specs'[1][name].id # specs[1][other].id
          /\ specs'[1]["networks_lock"].id # specs'[1]["firewalls_lock"].id]_vars

\* networks_lock was held and firewalls_lock free when the spec was pickled;
\* both have changed hands since, and the rebuilt locks are as the file says.
C27_Witness ==
  /\ last.op = "load"
  /\ file[1]["networks_lock"].args = <<TRUE>>
  /\ file[1]["firewalls_lock"].args = <<FALSE>>
  /\ specs[1]["networks_lock"].locked /\ ~specs[1]["firewalls_lock"].locked
  /\ ~machines["networks_lock"].locked /\ machines["firewalls_lock"].locked
====
